---- MODULE Spec2Model ----
(***************************************************************************)
(* Model of the diversion dashboard pipeline: field coercion and row       *)
(* normalisation (schema.ts), filtering and aggregation (transform.ts).    *)
(*                                                                         *)
(* Representation.                                                         *)
(*   JS numbers   records [k, v, d]: k = "num" is the exact rational v/d   *)
(*                (d > 0, lowest terms), k = "inf" is +/-Infinity (sign in *)
(*                v), k = "nan" is NaN, k = "null" is the JS null.         *)
(*                Arithmetic is exact; signed zero and rounding of         *)
(*                doubles are not modelled.                                *)
(*   JS strings   sequences of lexemes; a lexeme is one character, or one  *)
(*                of the literals "Infinity" and "row-", or a name.        *)
(*   date texts   records [fmt, day, tod]: the text of a date in one of    *)
(*                the formats the parsers distinguish ("dmy" dd/MM/yyyy,   *)
(*                "ymdhms" yyyy-MM-dd HH:mm:ss, "ymd" yyyy-MM-dd, "iso"    *)
(*                the toISOString form), "junk" a text no parser accepts,  *)
(*                "empty" the empty string.                                *)
(*   instants     integers, ticks since the epoch in UTC; a day has DayLen *)
(*                ticks, the local zone is TzOffset ticks ahead of UTC.    *)
(***************************************************************************)
EXTENDS Integers, Sequences, FiniteSets, TLC

\* ---------------------------------------------------------------- bounds
MaxStrLen == 3      \* longest raw numeric cell, in lexemes
MaxBatch == 3       \* longest raw batch given to normalizeRows
MaxRows == 2        \* longest record list given to applyFilters
MaxScoreRows == 3   \* longest record list given to calculateScorecards
DayLen == 3         \* ticks per day (the last tick of a day is 23:59:59.999)
TzOffset == 1       \* local time = UTC + TzOffset ticks
MaxAggRows == 3     \* longest record list given to one aggregation
MaxModelRows == 2   \* longest record list given to buildDashboardModel
MaxLimit == 2       \* largest explicit limit given to a chart or the penalty list
MaxCorridorRows == 2 \* longest record list given to the corridor table alone
MaxGenieRows == 3   \* longest record list behind a Genie context
MaxFetches == 3     \* most calls of fetchData in one life of the page
MaxClock == 2       \* latest fetchedAt the server stamps on a response

\* ------------------------------------------------------------ JS numbers
RECURSIVE GCD(_, _)
GCD(a, b) == IF b = 0 THEN a ELSE GCD(b, a % b)

AbsInt(n) == IF n < 0 THEN -n ELSE n

Rat(v, d) ==
  LET g == GCD(AbsInt(v), d)
  IN [k |-> "num", v |-> v \div g, d |-> d \div g]

Num(n) == [k |-> "num", v |-> n, d |-> 1]
Null == [k |-> "null", v |-> 0, d |-> 1]
NaN == [k |-> "nan", v |-> 0, d |-> 1]
PosInf == [k |-> "inf", v |-> 1, d |-> 1]
NegInf == [k |-> "inf", v |-> -1, d |-> 1]

isNaN(x) == x.k = "nan"
isFinite(x) == x.k = "num"

\* a < b on JS numbers (false whenever NaN is involved)
Lt(a, b) ==
  /\ a.k \in {"num", "inf"}
  /\ b.k \in {"num", "inf"}
  /\ CASE a.k = "num" /\ b.k = "num" -> a.v * b.d < b.v * a.d
       [] a.k = "inf" /\ b.k = "num" -> a.v < 0
       [] a.k = "num" /\ b.k = "inf" -> b.v > 0
       [] OTHER -> a.v < b.v

\* Math.abs
MathAbs(x) ==
  CASE x.k = "num" -> [x EXCEPT !.v = AbsInt(x.v)]
    [] x.k = "inf" -> PosInf
    [] OTHER -> NaN

\* a + b
Add(a, b) ==
  CASE a.k = "num" /\ b.k = "num" -> Rat(a.v * b.d + b.v * a.d, a.d * b.d)
    [] a.k = "nan" \/ b.k = "nan" -> NaN
    [] a.k = "inf" /\ b.k = "inf" -> IF a.v = b.v THEN a ELSE NaN
    [] a.k = "inf" -> a
    [] OTHER -> b

\* a / n for a positive integer n
DivInt(a, n) ==
  CASE a.k = "num" -> Rat(a.v, a.d * n)
    [] OTHER -> a

\* x || 0 on a number or null: null, NaN and 0 are falsy
OrZero(x) == IF x.k \in {"null", "nan"} THEN Num(0) ELSE x

\* ------------------------------------------------------------ JS strings
Digits == {"0", "1", "2", "3", "4", "5", "6", "7", "8", "9"}

DigitVal(c) ==
  CASE c = "0" -> 0 [] c = "1" -> 1 [] c = "2" -> 2 [] c = "3" -> 3
    [] c = "4" -> 4 [] c = "5" -> 5 [] c = "6" -> 6 [] c = "7" -> 7
    [] c = "8" -> 8 [] c = "9" -> 9

DigitChar(n) ==
  CASE n = 0 -> "0" [] n = 1 -> "1" [] n = 2 -> "2" [] n = 3 -> "3"
    [] n = 4 -> "4" [] n = 5 -> "5" [] n = 6 -> "6" [] n = 7 -> "7"
    [] n = 8 -> "8" [] n = 9 -> "9"

RECURSIVE NatToString(_)
NatToString(n) ==
  IF n < 10 THEN <<DigitChar(n)>>
  ELSE Append(NatToString(n \div 10), DigitChar(n % 10))

\* String(n) for an integral number
NumberToString(x) ==
  CASE x.k = "num" /\ x.d = 1 ->
         IF x.v < 0 THEN <<"-">> \o NatToString(-x.v) ELSE NatToString(x.v)
    [] x.k = "inf" -> IF x.v < 0 THEN <<"-", "Infinity">> ELSE <<"Infinity">>
    [] OTHER -> <<"NaN">>

RECURSIVE TrimLeft(_)
TrimLeft(s) ==
  IF s # <<>> /\ Head(s) = " " THEN TrimLeft(Tail(s)) ELSE s

RECURSIVE TrimRight(_)
TrimRight(s) ==
  IF s # <<>> /\ s[Len(s)] = " " THEN TrimRight(SubSeq(s, 1, Len(s) - 1)) ELSE s

\* String.prototype.trim
Trim(s) == TrimRight(TrimLeft(s))

\* value.replace(/,/g, "")
RemoveCommas(s) == SelectSeq(s, LAMBDA c : c # ",")

RECURSIVE DigitPrefix(_)
DigitPrefix(s) ==
  IF s # <<>> /\ Head(s) \in Digits
  THEN <<Head(s)>> \o DigitPrefix(Tail(s))
  ELSE <<>>

RECURSIVE DigitsValue(_)
DigitsValue(ds) ==
  IF ds = <<>> THEN 0
  ELSE 10 * DigitsValue(SubSeq(ds, 1, Len(ds) - 1)) + DigitVal(ds[Len(ds)])

RECURSIVE Pow10(_)
Pow10(n) == IF n = 0 THEN 1 ELSE 10 * Pow10(n - 1)

\* parseFloat: the longest prefix that is a decimal literal, NaN when there
\* is none (exponents are outside the modelled alphabet)
parseFloat(str) ==
  LET s == TrimLeft(str)
      signed == s # <<>> /\ Head(s) \in {"-", "+"}
      neg == s # <<>> /\ Head(s) = "-"
      body == IF signed THEN Tail(s) ELSE s
      ip == DigitPrefix(body)
      rest == SubSeq(body, Len(ip) + 1, Len(body))
      fp == IF rest # <<>> /\ Head(rest) = "." THEN DigitPrefix(Tail(rest)) ELSE <<>>
      mag == Rat(DigitsValue(ip) * Pow10(Len(fp)) + DigitsValue(fp), Pow10(Len(fp)))
  IN IF body # <<>> /\ Head(body) = "Infinity"
     THEN (IF neg THEN NegInf ELSE PosInf)
     ELSE IF ip = <<>> /\ fp = <<>> THEN NaN
     ELSE IF neg THEN [mag EXCEPT !.v = -mag.v] ELSE mag

\* ------------------------------------------------------------ date texts
EmptyDate == [fmt |-> "empty", day |-> 0, tod |-> 0]
JunkDate == [fmt |-> "junk", day |-> 0, tod |-> 0]
DateLit(f, day, tod) == [fmt |-> f, day |-> day, tod |-> tod]

\* new Date(year, month, day, ...): the fields are local wall-clock time
LocalInstant(day, tod) == day * DayLen + tod - TzOffset
\* an instant written with an explicit Z, or a date-only ISO form
UtcInstant(day, tod) == day * DayLen + tod

\* Date.prototype.toISOString
toISOString(t) == [fmt |-> "iso", day |-> t \div DayLen, tod |-> t % DayLen]

\* ------------------------------------------------------------ raw values
\* One cell of a raw row: t is the JS type; s the text of an ordinary cell,
\* d / pad the date text of a date cell and whether blanks surround it.
RawString(s) == [t |-> "string", s |-> s, n |-> Null, d |-> EmptyDate, pad |-> FALSE]
RawDateString(d, pad) == [t |-> "string", s |-> <<>>, n |-> Null, d |-> d, pad |-> pad]
RawNumber(n) == [t |-> "number", s |-> <<>>, n |-> n, d |-> EmptyDate, pad |-> FALSE]
RawNull == [t |-> "null", s |-> <<>>, n |-> Null, d |-> EmptyDate, pad |-> FALSE]
Undefined == [t |-> "undefined", s |-> <<>>, n |-> Null, d |-> EmptyDate, pad |-> FALSE]
RawBoolean == [t |-> "boolean", s |-> <<>>, n |-> Null, d |-> EmptyDate, pad |-> FALSE]

\* value === ""
IsEmptyString(value) ==
  value.t = "string" /\ value.s = <<>> /\ value.d.fmt = "empty" /\ ~value.pad

\* --------------------------------------------------- safe parsing helpers
safeParseNumber(value) ==
  IF value.t \in {"null", "undefined"} \/ IsEmptyString(value) THEN Null
  ELSE IF value.t = "number" THEN (IF isNaN(value.n) THEN Null ELSE value.n)
  ELSE IF value.t = "string" THEN
    LET cleaned == Trim(RemoveCommas(value.s))
        num == parseFloat(cleaned)
    IN IF cleaned = <<>> \/ cleaned = <<"-">> THEN Null
       ELSE IF isNaN(num) THEN Null ELSE num
  ELSE Null

\* The argument is a date cell; String(value).trim() drops the padding.
\* A date-only ISO text reaches the native parser, which reads it as UTC.
safeParseDateToISO(value) ==
  IF value.t \in {"null", "undefined"} \/ IsEmptyString(value) THEN EmptyDate
  ELSE LET str == value.d
       IN CASE str.fmt = "empty" -> EmptyDate
            [] str.fmt = "dmy" -> toISOString(LocalInstant(str.day, 0))
            [] str.fmt = "ymdhms" -> toISOString(LocalInstant(str.day, str.tod))
            [] str.fmt = "ymd" -> toISOString(UtcInstant(str.day, 0))
            [] str.fmt = "iso" -> toISOString(UtcInstant(str.day, str.tod))
            [] OTHER -> str

\* ------------------------------------------------------------ zod schemas
ZString(value) == value.t = "string"
ZNumber(value) == value.t = "number" /\ ~isNaN(value.n)
ZNull(value) == value.t = "null"
ZUndefined(value) == value.t = "undefined"

numericFieldAccepts(value) ==
  ZString(value) \/ ZNumber(value) \/ ZNull(value) \/ ZUndefined(value)
numericField(value) == safeParseNumber(value)

dateFieldAccepts(value) == ZString(value) \/ ZNull(value) \/ ZUndefined(value)
dateField(value) == safeParseDateToISO(value)

stringFieldAccepts(value) ==
  ZString(value) \/ ZNumber(value) \/ ZNull(value) \/ ZUndefined(value)
\* an ordinary text cell
stringField(value) ==
  IF value.t \in {"null", "undefined"} THEN <<>>
  ELSE IF value.t = "number" THEN Trim(NumberToString(value.n))
  ELSE Trim(value.s)
\* the same transform on the cell of the Date column, whose text is a date
\* text (numeric Date cells are outside the modelled inputs)
stringFieldDate(value) ==
  IF value.t \in {"null", "undefined"} THEN EmptyDate
  ELSE IF value.t = "number" THEN JunkDate
  ELSE value.d

NumericKeys ==
  { "erp_transit_distance_km", "A to C Distance(vehicle travel)", "Diff in lead",
    "total_distance_travelled_km", "Total Freight", "Nearest Consignee Total Freight",
    "Freight impact as per PTPK/Nearest consignee", "Freight",
    "drop_haversine_distance", "total_invoiced_qty", "loading_TAT_in_hrs",
    "actual_transit_time_in_days", "pickup_lat", "pickup_lng", "drop_lat", "drop_lng",
    "drop_closest_ping_lat", "drop_closest_ping_lng", "drop_google_distance_meters",
    "Nearest Consignee distance", "Nearest Consignee Freight",
    "2nd Nearest Consignee distance", "2nd Nearest Consignee Freight",
    "2nd Nearest Consignee Total Freight" }

DateKeys ==
  { "created_at", "closed_at", "origin_entry_time_geofence", "origin_exit_time_geofence" }

StringKeys ==
  { "journey_id", "customer_load_id", "load_id", "branch_id", "branch_name", "Date",
    "load_status", "origin_location", "stop_location", "drop_closest_ping_address",
    "Nearest Consignee", "Nearest Consignee Code", "company_id", "invoice_numbers",
    "branch_short_code", "vehicle_number", "vehicle_type", "driver_number",
    "network_operator", "track_mode", "status_of_tracked_mode", "mode_of_closure",
    "ft_consent_status", "drop_stop_code", "2nd Nearest Consignee",
    "2nd Nearest Consignee Code", "Freight calculation Remarks" }

\* rawRow[key], undefined for a missing key
Get(rawRow, key) == IF key \in DOMAIN rawRow THEN rawRow[key] ELSE Undefined

\* RawRowSchema.parse(rawRow) does not throw; keys outside the schema pass
\* through unchecked
RawRowSchemaAccepts(rawRow) ==
  /\ \A key \in NumericKeys : numericFieldAccepts(Get(rawRow, key))
  /\ \A key \in DateKeys : dateFieldAccepts(Get(rawRow, key))
  /\ \A key \in StringKeys : stringFieldAccepts(Get(rawRow, key))

\* -------------------------------------------------------- normalization
\* a slip of the comparison: <= in place of <
isPotentialDiversionOf_le(diffInLead) == diffInLead # Null /\ ~Lt(Num(0), diffInLead)

\* isPotentialDiversion: diffInLead !== null && diffInLead < 0
isPotentialDiversionOf(diffInLead) == diffInLead # Null /\ Lt(diffInLead, Num(0))

\* shortLeadDistanceKm: diffInLead !== null ? Math.abs(diffInLead) : null
shortLeadDistanceKmOf(diffInLead) ==
  IF diffInLead # Null THEN MathAbs(diffInLead) ELSE Null

\* parsed.customer_load_id || `row-${index}`
idOf(customerLoadId, index) ==
  IF customerLoadId # <<>> THEN customerLoadId ELSE <<"row-">> \o NatToString(index)

\* the record normalizeRow returns for a row the schema accepts
normalizeRow(rawRow, index) ==
  LET str(key) == stringField(Get(rawRow, key))
      num(key) == numericField(Get(rawRow, key))
      parsedDate == stringFieldDate(Get(rawRow, "Date"))
      diffInLead == num("Diff in lead")
      dateISO == safeParseDateToISO(RawDateString(parsedDate, FALSE))
  IN [ id |-> idOf(str("customer_load_id"), index),
       journeyId |-> str("journey_id"),
       customerLoadId |-> str("customer_load_id"),
       loadId |-> str("load_id"),
       branchId |-> str("branch_id"),
       branchName |-> str("branch_name"),
       date |-> parsedDate,
       dateISO |-> dateISO,
       createdAt |-> dateField(Get(rawRow, "created_at")),
       closedAt |-> dateField(Get(rawRow, "closed_at")),
       loadStatus |-> str("load_status"),
       originLocation |-> str("origin_location"),
       stopLocation |-> str("stop_location"),
       dropClosestPingAddress |-> str("drop_closest_ping_address"),
       nearestConsignee |-> str("Nearest Consignee"),
       nearestConsigneeCode |-> str("Nearest Consignee Code"),
       erpTransitDistanceKm |-> num("erp_transit_distance_km"),
       aToCDistanceKm |-> num("A to C Distance(vehicle travel)"),
       diffInLead |-> diffInLead,
       totalDistanceTravelledKm |-> num("total_distance_travelled_km"),
       totalFreight |-> num("Total Freight"),
       nearestConsigneeTotalFreight |-> num("Nearest Consignee Total Freight"),
       freightImpact |-> num("Freight impact as per PTPK/Nearest consignee"),
       isPotentialDiversion |-> isPotentialDiversionOf(diffInLead),
       shortLeadDistanceKm |-> shortLeadDistanceKmOf(diffInLead),
       vehicleNumber |-> str("vehicle_number"),
       vehicleType |-> str("vehicle_type"),
       freightCalculationRemarks |-> str("Freight calculation Remarks"),
       statusOfTrackedMode |-> str("status_of_tracked_mode"),
       loadingTatHrs |-> num("loading_TAT_in_hrs"),
       actualTransitTimeDays |-> num("actual_transit_time_in_days") ]

\* the nullable numeric fields of a DiversionRow
NumericRecordFields ==
  { "erpTransitDistanceKm", "aToCDistanceKm", "diffInLead", "totalDistanceTravelledKm",
    "totalFreight", "nearestConsigneeTotalFreight", "freightImpact",
    "shortLeadDistanceKm", "loadingTatHrs", "actualTransitTimeDays" }

\* ------------------------------------------------------------ date helpers
NoInstant == [valid |-> FALSE, t |-> 0]
Instant(t) == [valid |-> TRUE, t |-> t]

\* parseDate (transform.ts): the ISO form through new Date, then the
\* date-fns formats, which read their fields as local time
parseDate(dateStr) ==
  CASE dateStr.fmt = "empty" -> NoInstant
    [] dateStr.fmt = "iso" -> Instant(UtcInstant(dateStr.day, dateStr.tod))
    [] dateStr.fmt = "dmy" -> Instant(LocalInstant(dateStr.day, 0))
    [] dateStr.fmt = "ymdhms" -> Instant(LocalInstant(dateStr.day, dateStr.tod))
    [] dateStr.fmt = "ymd" -> Instant(LocalInstant(dateStr.day, 0))
    [] OTHER -> NoInstant

\* toDate.setHours(23, 59, 59, 999): the last tick of the local day of t
setHoursEndOfDay(t) == ((t + TzOffset) \div DayLen) * DayLen + (DayLen - 1) - TzOffset

\* r.dateISO || r.date
dateOf(r) == IF r.dateISO.fmt # "empty" THEN r.dateISO ELSE r.date

\* -------------------------------------------------------------- filtering
\* a slip of the flag: the rule runs when the toggle is off
passesOnlyDiversions_inverted(r, f) == ~(~f.onlyDiversions /\ ~r.isPotentialDiversion)

\* if (filters.onlyDiversions && !r.isPotentialDiversion) return false
passesOnlyDiversions(r, f) == ~(f.onlyDiversions /\ ~r.isPotentialDiversion)

\* a slip of the comparison: === in place of !==
passesBranch_inverted(r, f) == ~(f.branch # <<>> /\ r.branchName = f.branch)

\* if (filters.branch && r.branchName !== filters.branch) return false
passesBranch(r, f) == ~(f.branch # <<>> /\ r.branchName # f.branch)

\* if (filters.consignee && r.nearestConsignee !== filters.consignee) return false
passesConsignee(r, f) == ~(f.consignee # <<>> /\ r.nearestConsignee # f.consignee)

\* a slip of the threshold: its sign is not dropped
passesMinFreightImpact_signed(r, f) ==
  IF f.minFreightImpact # Null /\ f.minFreightImpact # Num(0)
  THEN LET impact == r.freightImpact
       IN ~(impact = Null \/ Lt(MathAbs(impact), f.minFreightImpact))
  ELSE TRUE

\* the minimum freight impact threshold
passesMinFreightImpact(r, f) ==
  IF f.minFreightImpact # Null /\ f.minFreightImpact # Num(0)
  THEN LET impact == r.freightImpact
       IN ~(impact = Null \/ Lt(MathAbs(impact), MathAbs(f.minFreightImpact)))
  ELSE TRUE

\* a slip of the upper bound: dateTo is compared at its first tick
passesDateRange_startOfDay(r, f) ==
  IF f.dateFrom.fmt # "empty" \/ f.dateTo.fmt # "empty"
  THEN LET recordDate == parseDate(dateOf(r))
           fromDate == parseDate(f.dateFrom)
           toDate == parseDate(f.dateTo)
       IN /\ recordDate.valid
          /\ ~(f.dateFrom.fmt # "empty" /\ fromDate.valid /\ recordDate.t < fromDate.t)
          /\ ~(f.dateTo.fmt # "empty" /\ toDate.valid /\ recordDate.t > toDate.t)
  ELSE TRUE

\* a slip of the null check: a record without an instant is compared anyway,
\* and every comparison with an invalid date is false
passesDateRange_noNullCheck(r, f) ==
  IF f.dateFrom.fmt # "empty" \/ f.dateTo.fmt # "empty"
  THEN LET recordDate == parseDate(dateOf(r))
           fromDate == parseDate(f.dateFrom)
           toDate == parseDate(f.dateTo)
       IN \/ ~recordDate.valid
          \/ /\ ~(f.dateFrom.fmt # "empty" /\ fromDate.valid /\ recordDate.t < fromDate.t)
             /\ ~(f.dateTo.fmt # "empty" /\ toDate.valid
                    /\ recordDate.t > setHoursEndOfDay(toDate.t))
  ELSE TRUE

\* the date range filter
passesDateRange(r, f) ==
  IF f.dateFrom.fmt # "empty" \/ f.dateTo.fmt # "empty"
  THEN LET recordDate == parseDate(dateOf(r))
           fromDate == parseDate(f.dateFrom)
           toDate == parseDate(f.dateTo)
       IN /\ recordDate.valid
          /\ ~(f.dateFrom.fmt # "empty" /\ fromDate.valid /\ recordDate.t < fromDate.t)
          /\ ~(f.dateTo.fmt # "empty" /\ toDate.valid
                 /\ recordDate.t > setHoursEndOfDay(toDate.t))
  ELSE TRUE

\* the callback of rows.filter: the rules in source order
rowPasses(r, f) ==
  /\ passesOnlyDiversions(r, f)
  /\ passesBranch(r, f)
  /\ passesConsignee(r, f)
  /\ passesMinFreightImpact(r, f)
  /\ passesDateRange(r, f)

applyFilters(rs, f) == SelectSeq(rs, LAMBDA r : rowPasses(r, f))

\* ------------------------------------------------------------- scorecards
\* seq.reduce((sum, x) => sum + x, 0)
RECURSIVE reduceSum(_)
reduceSum(xs) ==
  IF xs = <<>> THEN Num(0)
  ELSE Add(reduceSum(SubSeq(xs, 1, Len(xs) - 1)), xs[Len(xs)])

\* Math.max(...xs)
RECURSIVE MathMax(_)
MathMax(xs) ==
  IF xs = <<>> THEN NegInf
  ELSE LET m == MathMax(SubSeq(xs, 1, Len(xs) - 1))
           x == xs[Len(xs)]
       IN IF isNaN(m) \/ isNaN(x) THEN NaN
          ELSE IF Lt(m, x) THEN x ELSE m

\* xs.map(fn) for a sequence
MapSeq(xs, fn(_)) == [j \in 1..Len(xs) |-> fn(xs[j])]

\* a slip of the set: the empty string is not filtered out
SetOfNonEmpty_keepEmpty(xs) == {xs[j] : j \in 1..Len(xs)}

\* new Set(xs.filter(Boolean)) for a sequence of strings
SetOfNonEmpty(xs) == {xs[j] : j \in 1..Len(xs)} \ {<<>>}

\* a slip of the sum: the signed impact is added
absImpact_signed(r) == OrZero(r.freightImpact)

\* Math.abs(r.freightImpact || 0)
absImpact(r) == MathAbs(OrZero(r.freightImpact))

\* a slip of the guards: the mean and the maximum of no distances
calculateScorecards_unguarded(rs) ==
  LET divertedRows == SelectSeq(rs, LAMBDA r : r.isPotentialDiversion)
      shortLeadDistances ==
        SelectSeq(MapSeq(divertedRows, LAMBDA r : r.shortLeadDistanceKm),
                  LAMBDA dist : dist # Null)
  IN [ totalPotentialRecovery |-> reduceSum(MapSeq(divertedRows, absImpact)),
       avgShortLeadDistance |->
         IF Len(shortLeadDistances) > 0
         THEN DivInt(reduceSum(shortLeadDistances), Len(shortLeadDistances))
         ELSE NaN,
       maxDivertedDistance |-> MathMax(shortLeadDistances),
       totalDivertedJourneys |->
         Cardinality(SetOfNonEmpty(MapSeq(divertedRows, LAMBDA r : r.journeyId))),
       totalConsigneesInvolved |->
         Cardinality(SetOfNonEmpty(MapSeq(divertedRows, LAMBDA r : r.nearestConsignee))),
       totalBranchesWithDiversions |->
         Cardinality(SetOfNonEmpty(MapSeq(divertedRows, LAMBDA r : r.branchName))) ]

calculateScorecards(rs) ==
  LET divertedRows == SelectSeq(rs, LAMBDA r : r.isPotentialDiversion)
      totalPotentialRecovery == reduceSum(MapSeq(divertedRows, absImpact))
      shortLeadDistances ==
        SelectSeq(MapSeq(divertedRows, LAMBDA r : r.shortLeadDistanceKm),
                  LAMBDA dist : dist # Null)
      avgShortLeadDistance ==
        IF Len(shortLeadDistances) > 0
        THEN DivInt(reduceSum(shortLeadDistances), Len(shortLeadDistances))
        ELSE Num(0)
      maxDivertedDistance ==
        IF Len(shortLeadDistances) > 0 THEN MathMax(shortLeadDistances) ELSE Num(0)
      uniqueJourneys == SetOfNonEmpty(MapSeq(divertedRows, LAMBDA r : r.journeyId))
      uniqueConsignees == SetOfNonEmpty(MapSeq(divertedRows, LAMBDA r : r.nearestConsignee))
      uniqueBranches == SetOfNonEmpty(MapSeq(divertedRows, LAMBDA r : r.branchName))
  IN [ totalPotentialRecovery |-> totalPotentialRecovery,
       avgShortLeadDistance |-> avgShortLeadDistance,
       maxDivertedDistance |-> maxDivertedDistance,
       totalDivertedJourneys |-> Cardinality(uniqueJourneys),
       totalConsigneesInvolved |-> Cardinality(uniqueConsignees),
       totalBranchesWithDiversions |-> Cardinality(uniqueBranches) ]

\* ------------------------------------------------------ grouping helpers
\* a - b
Sub(a, b) ==
  CASE a.k = "num" /\ b.k = "num" -> Rat(a.v * b.d - b.v * a.d, a.d * b.d)
    [] a.k = "nan" \/ b.k = "nan" -> NaN
    [] a.k = "inf" /\ b.k = "inf" -> IF a.v = b.v THEN NaN ELSE a
    [] a.k = "inf" -> a
    [] OTHER -> [b EXCEPT !.v = -b.v]

\* a comparator result below 0 (NaN and 0 leave the pair as it stands)
IsNegative(x) == x.k \in {"num", "inf"} /\ x.v < 0

\* a slip of the scope: the rows are aggregated whatever their flag
divertedRowsOf_all(rs) == rs

\* rows.filter((r) => r.isPotentialDiversion)
divertedRowsOf(rs) == SelectSeq(rs, LAMBDA r : r.isPotentialDiversion)

\* the position of key among the entries of a Map, 0 when it has none
mapIndexOf(map, key) ==
  IF \E j \in 1..Len(map) : map[j].key = key
  THEN CHOOSE j \in 1..Len(map) : map[j].key = key
  ELSE 0

\* a slip of the comparison: an element goes before the ones it ties with
sortDescending_unstable(keys) ==
  LET RECURSIVE order(_)
      order(n) ==
        IF n = 0 THEN <<>>
        ELSE LET prev == order(n - 1)
                 later == {p \in 1..Len(prev) :
                             ~IsNegative(Sub(keys[n], keys[prev[p]]))}
                 at == IF later = {} THEN Len(prev) + 1
                       ELSE CHOOSE p \in later : \A q \in later : p <= q
             IN SubSeq(prev, 1, at - 1) \o <<n>> \o SubSeq(prev, at, Len(prev))
  IN order(Len(keys))

\* xs.sort((a, b) => b.key - a.key), as the order of the positions of xs:
\* Array.prototype.sort is stable, so an element stays behind every earlier
\* element that the comparator does not put after it
sortDescending(keys) ==
  LET RECURSIVE order(_)
      order(n) ==
        IF n = 0 THEN <<>>
        ELSE LET prev == order(n - 1)
                 later == {p \in 1..Len(prev) :
                             IsNegative(Sub(keys[prev[p]], keys[n]))}
                 at == IF later = {} THEN Len(prev) + 1
                       ELSE CHOOSE p \in later : \A q \in later : p <= q
             IN SubSeq(prev, 1, at - 1) \o <<n>> \o SubSeq(prev, at, Len(prev))
  IN order(Len(keys))

\* xs in the order of the positions
Permute(xs, order) == [j \in 1..Len(order) |-> xs[order[j]]]

\* a slip of the bound: one entry more than the limit
Slice_offByOne(xs, limit) ==
  SubSeq(xs, 1, IF limit + 1 < Len(xs) THEN limit + 1 ELSE Len(xs))

\* xs.slice(0, limit) for a limit of 0 or more
Slice(xs, limit) == SubSeq(xs, 1, IF limit < Len(xs) THEN limit ELSE Len(xs))

\* xs.length > 0 ? xs.reduce((a, b) => a + b, 0) / xs.length : 0
meanOrZero(xs) ==
  IF Len(xs) > 0 THEN DivInt(reduceSum(xs), Len(xs)) ELSE Num(0)

\* a slip of the guard: Math.max() of no values is -Infinity
maxOrZero_unguarded(xs) == MathMax(xs)

\* xs.length > 0 ? Math.max(...xs) : 0
maxOrZero(xs) == IF Len(xs) > 0 THEN MathMax(xs) ELSE Num(0)

\* ----------------------------------------------------------------- charts
DefaultChartLimit == 10

\* a slip of the guard: rows without a key are bucketed under the empty key
chartForEach_placeholder(keys, divertedRows) ==
  LET RECURSIVE upTo(_)
      upTo(n) ==
        IF n = 0 THEN <<>>
        ELSE LET map == upTo(n - 1)
                 j == mapIndexOf(map, keys[n])
                 existing == IF j # 0 THEN map[j]
                             ELSE [key |-> keys[n], recovery |-> Num(0), count |-> 0]
                 updated == [existing EXCEPT !.recovery = Add(@, absImpact(divertedRows[n])),
                                             !.count = @ + 1]
             IN IF j # 0 THEN [map EXCEPT ![j] = updated] ELSE Append(map, updated)
  IN upTo(Len(divertedRows))

\* divertedRows.forEach(...) of a chart: the entries of the Map in insertion
\* order, keys[n] being the grouping key of divertedRows[n]
chartForEach(keys, divertedRows) ==
  LET RECURSIVE upTo(_)
      upTo(n) ==
        IF n = 0 THEN <<>>
        ELSE LET map == upTo(n - 1)
                 j == mapIndexOf(map, keys[n])
                 existing == IF j # 0 THEN map[j]
                             ELSE [key |-> keys[n], recovery |-> Num(0), count |-> 0]
                 updated == [existing EXCEPT !.recovery = Add(@, absImpact(divertedRows[n])),
                                             !.count = @ + 1]
             IN IF keys[n] = <<>> THEN map
                ELSE IF j # 0 THEN [map EXCEPT ![j] = updated]
                ELSE Append(map, updated)
  IN upTo(Len(divertedRows))

\* Array.from(map.entries()).map(...).sort(...).slice(0, limit)
chartFromMap(map, limit) ==
  LET points == [j \in 1..Len(map) |->
                   [name |-> map[j].key, recovery |-> map[j].recovery,
                    count |-> map[j].count]]
      sorted == Permute(points, sortDescending([j \in 1..Len(points) |-> points[j].recovery]))
  IN Slice(sorted, limit)

calculateBranchChart(rs, limit) ==
  LET divertedRows == divertedRowsOf(rs)
      branchMap == chartForEach(MapSeq(divertedRows, LAMBDA r : r.branchName), divertedRows)
  IN chartFromMap(branchMap, limit)

calculateConsigneeChart(rs, limit) ==
  LET divertedRows == divertedRowsOf(rs)
      consigneeMap ==
        chartForEach(MapSeq(divertedRows, LAMBDA r : r.nearestConsignee), divertedRows)
  IN chartFromMap(consigneeMap, limit)

\* ----------------------------------------------------------------- tables
\* if (r.journeyId) existing.journeys.add(r.journeyId)
addJourney(journeys, journeyId) ==
  IF journeyId # <<>> THEN journeys \cup {journeyId} ELSE journeys

\* if (r.shortLeadDistanceKm !== null) existing.shortLeads.push(...)
pushShortLead(shortLeads, r) ==
  IF r.shortLeadDistanceKm # Null THEN Append(shortLeads, r.shortLeadDistanceKm)
  ELSE shortLeads

calculateBranchTable(rs) ==
  LET divertedRows == divertedRowsOf(rs)
      RECURSIVE upTo(_)
      upTo(n) ==
        IF n = 0 THEN <<>>
        ELSE LET map == upTo(n - 1)
                 r == divertedRows[n]
                 j == mapIndexOf(map, r.branchName)
                 existing == IF j # 0 THEN map[j]
                             ELSE [key |-> r.branchName, journeys |-> {},
                                   recovery |-> Num(0), shortLeads |-> <<>>]
                 updated == [existing EXCEPT !.journeys = addJourney(@, r.journeyId),
                                             !.recovery = Add(@, absImpact(r)),
                                             !.shortLeads = pushShortLead(@, r)]
             IN IF r.branchName = <<>> THEN map
                ELSE IF j # 0 THEN [map EXCEPT ![j] = updated]
                ELSE Append(map, updated)
      branchMap == upTo(Len(divertedRows))
      table == [j \in 1..Len(branchMap) |->
                  [branchName |-> branchMap[j].key,
                   divertedJourneys |-> Cardinality(branchMap[j].journeys),
                   totalRecovery |-> branchMap[j].recovery,
                   avgShortLead |-> meanOrZero(branchMap[j].shortLeads),
                   maxShortLead |-> maxOrZero(branchMap[j].shortLeads)]]
  IN Permute(table, sortDescending([j \in 1..Len(table) |-> table[j].totalRecovery]))

\* a slip of the guard: the division is made whatever the total
repeatRateOf_unguarded(size, totalJourneys) ==
  IF totalJourneys = 0 THEN NaN ELSE Rat(size * 100, totalJourneys)

\* totalJourneys > 0 ? (data.journeys.size / totalJourneys) * 100 : 0
repeatRateOf(size, totalJourneys) ==
  IF totalJourneys > 0 THEN Rat(size * 100, totalJourneys) ELSE Num(0)

calculateConsigneeTable(rs) ==
  LET divertedRows == divertedRowsOf(rs)
      totalJourneys ==
        Cardinality(SetOfNonEmpty(MapSeq(divertedRows, LAMBDA r : r.journeyId)))
      RECURSIVE upTo(_)
      upTo(n) ==
        IF n = 0 THEN <<>>
        ELSE LET map == upTo(n - 1)
                 r == divertedRows[n]
                 j == mapIndexOf(map, r.nearestConsignee)
                 existing == IF j # 0 THEN map[j]
                             ELSE [key |-> r.nearestConsignee, journeys |-> {},
                                   recovery |-> Num(0)]
                 updated == [existing EXCEPT !.journeys = addJourney(@, r.journeyId),
                                             !.recovery = Add(@, absImpact(r))]
             IN IF r.nearestConsignee = <<>> THEN map
                ELSE IF j # 0 THEN [map EXCEPT ![j] = updated]
                ELSE Append(map, updated)
      consigneeMap == upTo(Len(divertedRows))
      table == [j \in 1..Len(consigneeMap) |->
                  [consignee |-> consigneeMap[j].key,
                   divertedJourneys |-> Cardinality(consigneeMap[j].journeys),
                   totalRecovery |-> consigneeMap[j].recovery,
                   repeatRate |-> repeatRateOf(Cardinality(consigneeMap[j].journeys),
                                               totalJourneys)]]
  IN Permute(table, sortDescending([j \in 1..Len(table) |-> table[j].totalRecovery]))

\* a slip of the fallback: the empty location is kept as it is
orUnknown_keepEmpty(location) == location

\* r.originLocation || "Unknown"
orUnknown(location) == IF location # <<>> THEN location ELSE <<"Unknown">>

\* `${origin}|||${destination}`
corridorKey(origin, destination) == origin \o <<"|||">> \o destination

\* `${data.origin} -> ${data.destination}` (the arrow is one lexeme)
corridorLabel(origin, destination) == origin \o <<" ", "->", " ">> \o destination

\* a slip of the sort key: the corridors are ranked by recovery
corridorSortKey_recovery(row) == row.totalRecovery

\* the value the comparator of the corridor table subtracts: b.count - a.count
corridorSortKey(row) == Num(row.count)

calculateCorridorTable(rs) ==
  LET divertedRows == divertedRowsOf(rs)
      RECURSIVE upTo(_)
      upTo(n) ==
        IF n = 0 THEN <<>>
        ELSE LET map == upTo(n - 1)
                 r == divertedRows[n]
                 origin == orUnknown(r.originLocation)
                 destination == orUnknown(r.stopLocation)
                 key == corridorKey(origin, destination)
                 j == mapIndexOf(map, key)
                 existing == IF j # 0 THEN map[j]
                             ELSE [key |-> key, origin |-> origin,
                                   destination |-> destination, count |-> 0,
                                   recovery |-> Num(0), shortLeads |-> <<>>]
                 updated == [existing EXCEPT !.count = @ + 1,
                                             !.recovery = Add(@, absImpact(r)),
                                             !.shortLeads = pushShortLead(@, r)]
             IN IF j # 0 THEN [map EXCEPT ![j] = updated] ELSE Append(map, updated)
      corridorMap == upTo(Len(divertedRows))
      table == [j \in 1..Len(corridorMap) |->
                  [origin |-> corridorMap[j].origin,
                   destination |-> corridorMap[j].destination,
                   corridor |-> corridorLabel(corridorMap[j].origin,
                                              corridorMap[j].destination),
                   count |-> corridorMap[j].count,
                   totalRecovery |-> corridorMap[j].recovery,
                   avgShortLead |-> meanOrZero(corridorMap[j].shortLeads)]]
  IN Permute(table, sortDescending([j \in 1..Len(table) |-> corridorSortKey(table[j])]))

DefaultPenaltyLimit == 20

\* a slip of the test: a freight impact of 0 is falsy and dropped
hasFreightImpact_truthy(r) == r.freightImpact # Null /\ r.freightImpact # Num(0)

\* r.freightImpact !== null
hasFreightImpact(r) == r.freightImpact # Null

calculatePenaltyCandidates(rs, limit) ==
  LET divertedRows == divertedRowsOf(rs)
      withImpact == SelectSeq(divertedRows, hasFreightImpact)
      sorted == Permute(withImpact,
                        sortDescending([j \in 1..Len(withImpact) |-> absImpact(withImpact[j])]))
      top == Slice(sorted, limit)
  IN [j \in 1..Len(top) |->
        [journeyId |-> top[j].journeyId,
         branchName |-> top[j].branchName,
         consignee |-> top[j].nearestConsignee,
         diffInLead |-> top[j].diffInLead,
         freightImpact |-> top[j].freightImpact,
         originLocation |-> top[j].originLocation,
         stopLocation |-> top[j].stopLocation,
         dropClosestPingAddress |-> top[j].dropClosestPingAddress,
         date |-> top[j].date]]

\* --------------------------------------------------------- filter options
\* the UTF-16 code units of a lexeme
CodeUnits(c) ==
  CASE c \in Digits -> <<48 + DigitVal(c)>>
    [] c = " " -> <<32>>
    [] c = "-" -> <<45>>
    [] c = "B1" -> <<66, 49>>
    [] c = "B2" -> <<66, 50>>
    [] c = "C1" -> <<67, 49>>
    [] c = "C2" -> <<67, 50>>
    [] c = "b" -> <<98>>

RECURSIVE UnitsOf(_)
UnitsOf(str) == IF str = <<>> THEN <<>> ELSE CodeUnits(Head(str)) \o UnitsOf(Tail(str))

RECURSIVE UnitsLess(_, _)
UnitsLess(a, b) ==
  IF b = <<>> THEN FALSE
  ELSE IF a = <<>> THEN TRUE
  ELSE IF Head(a) # Head(b) THEN Head(a) < Head(b)
  ELSE UnitsLess(Tail(a), Tail(b))

\* Array.from(set).sort(): the strings in ascending order of code units
RECURSIVE sortStrings(_)
sortStrings(set) ==
  IF set = {} THEN <<>>
  ELSE LET least == CHOOSE x \in set :
                      \A y \in set \ {x} : UnitsLess(UnitsOf(x), UnitsOf(y))
       IN <<least>> \o sortStrings(set \ {least})

\* format(date, "yyyy-MM-dd"): the local day of an instant
formatYmd(t) == DateLit("ymd", (t + TzOffset) \div DayLen, 0)

extractFilterOptions(rs) ==
  LET branches == SetOfNonEmpty(MapSeq(rs, LAMBDA r : r.branchName))
      consignees == SetOfNonEmpty(MapSeq(rs, LAMBDA r : r.nearestConsignee))
      dates == {parseDate(dateOf(rs[j])).t : j \in {h \in 1..Len(rs) : parseDate(dateOf(rs[h])).valid}}
      minDate == CHOOSE t \in dates : \A u \in dates : t <= u
      maxDate == CHOOSE t \in dates : \A u \in dates : u <= t
  IN [ branches |-> sortStrings(branches),
       consignees |-> sortStrings(consignees),
       dateRange |-> [ min |-> IF dates # {} THEN formatYmd(minDate) ELSE EmptyDate,
                       max |-> IF dates # {} THEN formatYmd(maxDate) ELSE EmptyDate ] ]

\* ---------------------------------------------------- the dashboard model
\* a slip of the argument: the options are taken from the filtered rows
buildDashboardModel_optionsFromFiltered(allRows, f) ==
  LET filtered == applyFilters(allRows, f)
  IN [ filteredRows |-> filtered,
       totalRows |-> Len(filtered),
       filterOptions |-> extractFilterOptions(filtered),
       scorecards |-> calculateScorecards(filtered),
       branchChart |-> calculateBranchChart(filtered, DefaultChartLimit),
       consigneeChart |-> calculateConsigneeChart(filtered, DefaultChartLimit),
       branchTable |-> calculateBranchTable(filtered),
       consigneeTable |-> calculateConsigneeTable(filtered),
       corridorTable |-> calculateCorridorTable(filtered),
       penaltyCandidates |-> calculatePenaltyCandidates(filtered, DefaultPenaltyLimit) ]

buildDashboardModel(allRows, f) ==
  LET filtered == applyFilters(allRows, f)
  IN [ filteredRows |-> filtered,
       totalRows |-> Len(allRows),
       filterOptions |-> extractFilterOptions(allRows),
       scorecards |-> calculateScorecards(filtered),
       branchChart |-> calculateBranchChart(filtered, DefaultChartLimit),
       consigneeChart |-> calculateConsigneeChart(filtered, DefaultChartLimit),
       branchTable |-> calculateBranchTable(filtered),
       consigneeTable |-> calculateConsigneeTable(filtered),
       corridorTable |-> calculateCorridorTable(filtered),
       penaltyCandidates |-> calculatePenaltyCandidates(filtered, DefaultPenaltyLimit) ]

\* ------------------------------------------------ the page's fetched data
\* lastUpdated: null, or the fetchedAt text of a response (a server tick)
NoTime == [k |-> "null", at |-> 0]
At(t) == [k |-> "iso", at |-> t]

\* initialLoadError: null, or a message
NoError == [k |-> "null", text |-> <<>>]
ErrorText(message) == [k |-> "string", text |-> message]

\* a slip of the catch block: every failure sets the blocking error
initialLoadErrorAfterCatch_always(isRefresh, errorMessage, old) == ErrorText(errorMessage)

\* the catch block of fetchData: setInitialLoadError only when !isRefresh
initialLoadErrorAfterCatch(isRefresh, errorMessage, old) ==
  IF isRefresh THEN old ELSE ErrorText(errorMessage)

\* the catch block of fetchData: showError only when isRefresh; addToast
\* appends a toast whose id (Date.now() and a random suffix) is new
toastsAfterCatch(isRefresh, errorMessage, old, id) ==
  IF isRefresh
  THEN Append(old, [id |-> id, type |-> "error",
                    message |-> <<"Refresh failed: ">> \o errorMessage
                                  \o <<". Showing cached data.">>])
  ELSE old

\* dismissToast: prev.filter((t) => t.id !== id)
dismissToast(prev, id) == SelectSeq(prev, LAMBDA t : t.id # id)

\* ------------------------------------------------------ URL filter params
\* searchParams.get(key): null, or the parameter's text (a date text for
\* from and to, lexemes for the others)
NoParam == [present |-> FALSE, s |-> <<>>, d |-> EmptyDate]
TextParam(s) == [present |-> TRUE, s |-> s, d |-> EmptyDate]

EmptyUrl ==
  [ from |-> NoParam, to |-> NoParam, branch |-> NoParam, consignee |-> NoParam,
    minImpact |-> NoParam, diversions |-> NoParam ]

FilterKeys ==
  {"dateFrom", "dateTo", "branch", "consignee", "minFreightImpact", "onlyDiversions"}

PARAM_KEYS(key) ==
  CASE key = "dateFrom" -> "from"
    [] key = "dateTo" -> "to"
    [] key = "branch" -> "branch"
    [] key = "consignee" -> "consignee"
    [] key = "minFreightImpact" -> "minImpact"
    [] key = "onlyDiversions" -> "diversions"

\* a value setFilter takes (string | boolean | number | null): its type t
\* and, by type, its lexemes s or date text d, its number n, its boolean b
FilterValue(t, s, d, n, b) == [t |-> t, s |-> s, d |-> d, n |-> n, b |-> b]

\* setFilter has not been called
NoCall == [key |-> "", value |-> FilterValue("null", <<>>, EmptyDate, Null, FALSE)]

DefaultWindowDays == 30

\* defaultDateFrom: 30 days before dateRange.max, not before dateRange.min;
\* new Date("yyyy-MM-dd") is midnight UTC and format writes the local day
defaultDateFrom(dateRange) ==
  IF dateRange.max.fmt = "empty" THEN EmptyDate
  ELSE LET maxDate == UtcInstant(dateRange.max.day, 0)
           thirtyDaysAgo == maxDate - DefaultWindowDays * DayLen
       IN IF dateRange.min.fmt # "empty" /\ thirtyDaysAgo < UtcInstant(dateRange.min.day, 0)
          THEN dateRange.min
          ELSE formatYmd(thirtyDaysAgo)

\* the filterOptions memo of DashboardContent, its dateRange
dateRangeOf(data) ==
  IF Len(data) = 0 THEN [min |-> EmptyDate, max |-> EmptyDate]
  ELSE extractFilterOptions(data).dateRange

\* the filters memo of useFilterParams
filtersFromUrl(params, defaultFrom) ==
  LET hasUrlParams == \E key \in DOMAIN params : params[key].present
  IN [ dateFrom |-> IF params.from.present THEN params.from.d
                    ELSE IF hasUrlParams THEN EmptyDate ELSE defaultFrom,
       dateTo |-> IF params.to.present THEN params.to.d ELSE EmptyDate,
       branch |-> IF params.branch.present THEN params.branch.s ELSE <<>>,
       consignee |-> IF params.consignee.present THEN params.consignee.s ELSE <<>>,
       minFreightImpact |->
         IF params.minImpact.present /\ params.minImpact.s # <<>>
         THEN parseFloat(params.minImpact.s) ELSE Null,
       onlyDiversions |->
         IF ~params.diversions.present THEN TRUE
         ELSE params.diversions.s # <<"0">> /\ params.diversions.s # <<"false">> ]

\* setFilter(key, value): the query parameters handed to router.replace
setFilter(params, key, value) ==
  LET paramKey == PARAM_KEYS(key)
  IN IF \/ value.t = "null"
        \/ value.t = "string" /\ value.s = <<>> /\ value.d.fmt = "empty"
        \/ key = "onlyDiversions" /\ value.t = "boolean" /\ value.b
     THEN [params EXCEPT ![paramKey] = NoParam]
     ELSE IF value.t = "boolean"
     THEN [params EXCEPT ![paramKey] = TextParam(IF value.b THEN <<"1">> ELSE <<"0">>)]
     ELSE IF value.t = "number"
     THEN [params EXCEPT ![paramKey] = TextParam(NumberToString(value.n))]
     ELSE [params EXCEPT ![paramKey] = [present |-> TRUE, s |-> value.s, d |-> value.d]]

\* ------------------------------------------------------ the Genie context
\* round(value, decimals); Math.round gives the nearest integer, a half
\* going upward
round(value, decimals) ==
  IF ~isFinite(value) THEN Num(0)
  ELSE LET factor == Pow10(decimals)
           scaled == Rat(value.v * factor, value.d)
           MathRound == (2 * scaled.v + scaled.d) \div (2 * scaled.d)
       IN Rat(MathRound, factor)

\* p.name ?? 0 on an object that may lack the field: a missing field reads
\* as undefined, which ?? replaces as it replaces null
fieldOrZero(p, name) ==
  IF name \in DOMAIN p /\ p[name] # Null THEN p[name] ELSE Num(0)

TopPenaltyCount == 20

\* the topPenaltyCandidates of buildGenieContext(model, filters, lastUpdated)
topPenaltyCandidates(m) ==
  LET top == Slice(m.penaltyCandidates, TopPenaltyCount)
  IN [j \in 1..Len(top) |->
        [journeyId |-> top[j].journeyId,
         branch |-> top[j].branchName,
         consignee |-> top[j].consignee,
         recovery |-> round(fieldOrZero(top[j], "recoveryAmount"), 0),
         leadKm |-> round(fieldOrZero(top[j], "shortLeadDistance"), 1),
         date |-> top[j].date]]

\* ---------------------------------------- what a build leaves of its inputs
\* a slip of calculatePenaltyCandidates: sort called on the array it was
\* given, which then holds its rows by |freightImpact|, largest first
allRowsAfterBuild_sortedInPlace(allRows, f) ==
  Permute(allRows, sortDescending(MapSeq(allRows, absImpact)))

\* the allRows array once buildDashboardModel has returned: applyFilters and
\* the aggregations read their rows through filter, forEach, map and reduce,
\* every sort is called on an array that filter, map or Array.from has just
\* made, and no statement assigns to a row's field
allRowsAfterBuild(allRows, f) == allRows

\* the filter state once buildDashboardModel has returned: applyFilters only
\* reads its fields, and setHours changes the Date that parseDate created
filtersAfterBuild(allRows, f) == f

\* ------------------------------------------------------------------ state
VARIABLES
  rawRows,       \* normalizeRows: the raw batch
  i,             \* normalizeRows: the loop index
  results,       \* normalizeRows: the records pushed so far
  warned,        \* normalizeRows: the indexes reported by console.warn
  rows,          \* the DiversionRow[] given to applyFilters / the aggregations
  filters,       \* the FilterState
  filteredRows,  \* the value of applyFilters(rows, filters)
  scorecards,    \* the value of calculateScorecards(rows)
  model,         \* the DashboardModel: the value of buildDashboardModel, or the
                 \* values of the aggregations called one by one
  limit,         \* the limit given to the last chart or penalty list call
  genie,         \* the topPenaltyCandidates of the last Genie context
  allData,       \* DashboardContent: the rows of the last successful fetch
  lastUpdated,   \* DashboardContent: the fetchedAt of the last successful fetch
  isLoading,     \* DashboardContent: the skeleton is shown
  isRefreshing,  \* DashboardContent: the refresh button is disabled
  initialLoadError, \* DashboardContent: the blocking error, or null
  toasts,        \* useToast: the toasts shown, oldest first
  inflight,      \* the fetchData calls that wait for their response
  started,       \* the number of fetchData calls made so far
  responses,     \* the response each finished fetchData call has received
  url,           \* the query parameters of the page's URL
  call,          \* the last call of setFilter: its key and its value
  pc             \* where the computation under study stands

vars ==
  <<rawRows, i, results, warned, rows, filters, filteredRows, scorecards, model, limit,
    genie, allData, lastUpdated, isLoading, isRefreshing, initialLoadError, toasts,
    inflight, started, responses, url, call, pc>>

fetchVars ==
  <<allData, lastUpdated, isLoading, isRefreshing, initialLoadError, toasts, inflight,
    started, responses>>
uiVars == <<genie, fetchVars, url, call>>

normVars == <<rawRows, i, results, warned>>
aggVars == <<model, limit>>
dashVars == <<rows, filters, filteredRows, scorecards, model, limit>>

DEFAULT_FILTERS ==
  [ dateFrom |-> EmptyDate, dateTo |-> EmptyDate, branch |-> <<>>, consignee |-> <<>>,
    minFreightImpact |-> Null, onlyDiversions |-> TRUE ]

NoScorecards ==
  [ totalPotentialRecovery |-> Num(0), avgShortLeadDistance |-> Num(0),
    maxDivertedDistance |-> Num(0), totalDivertedJourneys |-> 0,
    totalConsigneesInvolved |-> 0, totalBranchesWithDiversions |-> 0 ]

\* a DashboardModel whose every part is empty
EmptyModel ==
  [ filteredRows |-> <<>>,
    totalRows |-> 0,
    filterOptions |-> [ branches |-> <<>>, consignees |-> <<>>,
                        dateRange |-> [min |-> EmptyDate, max |-> EmptyDate] ],
    scorecards |-> NoScorecards,
    branchChart |-> <<>>,
    consigneeChart |-> <<>>,
    branchTable |-> <<>>,
    consigneeTable |-> <<>>,
    corridorTable |-> <<>>,
    penaltyCandidates |-> <<>> ]

\* the aggregation variables before any aggregation is called
AggIdle ==
  /\ model = EmptyModel
  /\ limit = 0

\* the variables of the page before it is looked at
UiIdle ==
  /\ genie = <<>>
  /\ allData = <<>>
  /\ lastUpdated = NoTime
  /\ isLoading = TRUE
  /\ isRefreshing = FALSE
  /\ initialLoadError = NoError
  /\ toasts = <<>>
  /\ inflight = {}
  /\ started = 0
  /\ responses = <<>>
  /\ url = EmptyUrl
  /\ call = NoCall

\* the pipeline variables while normalizeRows is under study
DashIdle ==
  /\ rows = <<>>
  /\ filters = DEFAULT_FILTERS
  /\ filteredRows = <<>>
  /\ scorecards = NoScorecards
  /\ AggIdle

\* the normalizer variables while the pipeline is under study
NormIdle ==
  /\ rawRows = <<>>
  /\ i = 0
  /\ results = <<>>
  /\ warned = <<>>

\* ------------------------------------------------------------ normalizeRows
\* a slip of the index: the position in the output instead of the input
PushRow_outputIndex ==
  /\ pc = "loop"
  /\ i < Len(rawRows)
  /\ RawRowSchemaAccepts(rawRows[i + 1])
  /\ results' = Append(results, normalizeRow(rawRows[i + 1], Len(results)))
  /\ i' = i + 1
  /\ UNCHANGED <<rawRows, warned, pc, dashVars, uiVars>>

\* try { results.push(normalizeRow(rawRows[i], i)) }
PushRow ==
  /\ pc = "loop"
  /\ i < Len(rawRows)
  /\ RawRowSchemaAccepts(rawRows[i + 1])
  /\ results' = Append(results, normalizeRow(rawRows[i + 1], i))
  /\ i' = i + 1
  /\ UNCHANGED <<rawRows, warned, pc, dashVars, uiVars>>

\* catch (err) { console.warn(...) }: the row is skipped, the loop goes on
SkipRow ==
  /\ pc = "loop"
  /\ i < Len(rawRows)
  /\ ~RawRowSchemaAccepts(rawRows[i + 1])
  /\ warned' = Append(warned, i)
  /\ i' = i + 1
  /\ UNCHANGED <<rawRows, results, pc, dashVars, uiVars>>

\* return results
ReturnResults ==
  /\ pc = "loop"
  /\ i = Len(rawRows)
  /\ pc' = "returned"
  /\ UNCHANGED <<normVars, uiVars, dashVars, uiVars>>

NextNormalize == PushRow \/ SkipRow \/ ReturnResults

\* ------------------------------------------- inputs: one row, rich cells
Alphabet == {"0", "1", "-", ",", " ", ".", "x", "Infinity"}

NumericStrings == UNION {[1..n -> Alphabet] : n \in 0..MaxStrLen}

\* what one cell of a numeric column may hold (a missing key is Undefined)
NumericCells ==
  {RawString(s) : s \in NumericStrings}
    \cup {RawNumber(Num(-1)), RawNumber(Num(0)), RawNumber(Num(10)), RawNumber(NaN)}
    \cup {RawNull, RawBoolean}

\* the raw columns whose coerced value normalizeRow copies into the record
CopiedNumericKeys ==
  { "erp_transit_distance_km", "A to C Distance(vehicle travel)", "Diff in lead",
    "total_distance_travelled_km", "Total Freight", "Nearest Consignee Total Freight",
    "Freight impact as per PTPK/Nearest consignee", "loading_TAT_in_hrs",
    "actual_transit_time_in_days" }

EmptyRow == [key \in {} |-> Undefined]

\* the rest of the row around the cell under study
RowBases ==
  { EmptyRow,
    ("customer_load_id" :> RawString(<<"L", "1">>))
      @@ ("Date" :> RawDateString(DateLit("dmy", 2, 0), TRUE))
      @@ ("Freight impact as per PTPK/Nearest consignee" :> RawString(<<"5", "0", "0">>))
      @@ ("Diff in lead" :> RawString(<<"7">>))
      @@ ("unexpected_column" :> RawBoolean),
    ("branch_name" :> RawString(<<" ", "Burdwan", " ">>))
      @@ ("Date" :> RawDateString(JunkDate, FALSE))
      @@ ("created_at" :> RawDateString(DateLit("ymdhms", 1, 2), FALSE))
      @@ ("Diff in lead" :> RawNumber(Num(-4)))
      @@ ("Total Freight" :> RawNull) }

InitRow ==
  /\ \E base \in RowBases, key \in CopiedNumericKeys, cell \in NumericCells :
       rawRows = << (key :> cell) @@ base >>
  /\ i = 0
  /\ results = <<>>
  /\ warned = <<>>
  /\ pc = "loop"
  /\ DashIdle
  /\ UiIdle

SpecRow == InitRow /\ [][NextNormalize]_vars

\* ------------------------------------------- inputs: batches, plain cells
BatchIds == {Undefined, RawString(<<"L", "1">>), RawString(<<"row-", "1">>)}
BatchLeads == {RawString(<<"-", "1">>), RawNull}
BatchCreated == {Undefined, RawNumber(Num(1))}

BatchRows ==
  { ("customer_load_id" :> id) @@ ("Diff in lead" :> lead) @@ ("created_at" :> created) :
      id \in BatchIds, lead \in BatchLeads, created \in BatchCreated }

InitBatch ==
  /\ rawRows \in UNION {[1..n -> BatchRows] : n \in 0..MaxBatch}
  /\ i = 0
  /\ results = <<>>
  /\ warned = <<>>
  /\ pc = "loop"
  /\ DashIdle
  /\ UiIdle

SpecBatch == InitBatch /\ [][NextNormalize]_vars

\* ----------------------------------------------------------- the pipeline
\* applyFilters(rows, filters), as buildDashboardModel calls it
ApplyFilters ==
  /\ pc = "input"
  /\ filteredRows' = applyFilters(rows, filters)
  /\ pc' = "filtered"
  /\ UNCHANGED <<normVars, uiVars, aggVars, rows, filters, scorecards>>

\* the diversions toggle: setFilter("onlyDiversions", v) changes that one
\* field and the memoised model is rebuilt from the same rows
SetOnlyDiversions ==
  /\ pc \in {"filtered", "refiltered"}
  /\ filters' = [filters EXCEPT !.onlyDiversions = ~filters.onlyDiversions]
  /\ filteredRows' = applyFilters(rows, filters')
  /\ pc' = "refiltered"
  /\ UNCHANGED <<normVars, uiVars, aggVars, rows, scorecards>>

NextFilter == ApplyFilters \/ SetOnlyDiversions

\* calculateScorecards(rows)
CalculateScorecards ==
  /\ pc = "input"
  /\ scorecards' = calculateScorecards(rows)
  /\ pc' = "scored"
  /\ UNCHANGED <<normVars, uiVars, aggVars, rows, filters, filteredRows>>

NextScore == CalculateScorecards

\* ------------------------------------------------- inputs of the pipeline
\* a raw row with the cells the pipeline reads
MkRaw(lead, impact, journey, branch, consignee, dateCell) ==
  ("Diff in lead" :> lead)
    @@ ("Freight impact as per PTPK/Nearest consignee" :> impact)
    @@ ("journey_id" :> journey)
    @@ ("branch_name" :> branch)
    @@ ("Nearest Consignee" :> consignee)
    @@ ("Date" :> dateCell)

\* the records normalizeRows returns for a batch the schema accepts
NormalizedBatch(raws) == [m \in 1..Len(raws) |-> normalizeRow(raws[m], m - 1)]

Txt(name) == RawString(<<name>>)
NegLead == RawString(<<"-", "5">>)
PosLead == RawString(<<"3">>)
LastTick == DayLen - 1

FilterRaws ==
  {MkRaw(lead, RawString(<<"-", "2">>), Txt("J1"), branch, Txt("C1"),
         RawDateString(DateLit("dmy", 2, 0), FALSE)) :
     lead \in {NegLead, PosLead}, branch \in {Txt("B1"), Txt("B2"), Undefined}}
  \cup
  {MkRaw(NegLead, RawString(<<"-", "2">>), Txt("J1"), Txt("B1"), Txt("C2"),
         RawDateString(DateLit("dmy", 2, 0), FALSE)),
   MkRaw(PosLead, RawNull, Txt("J1"), Txt("B1"), Txt("C1"),
         RawDateString(DateLit("dmy", 2, 0), FALSE))}
  \cup
  {MkRaw(NegLead, impact, Txt("J1"), Txt("B1"), Txt("C1"),
         RawDateString(DateLit("dmy", 2, 0), FALSE)) :
     impact \in {RawNull, RawString(<<"1">>), RawString(<<"3">>)}}
  \cup
  {MkRaw(NegLead, RawString(<<"-", "2">>), Txt("J1"), Txt("B1"), Txt("C1"), dateCell) :
     dateCell \in {Undefined, RawDateString(JunkDate, FALSE),
                   RawDateString(DateLit("dmy", 1, 0), FALSE),
                   RawDateString(DateLit("ymdhms", 2, LastTick), FALSE),
                   RawDateString(DateLit("ymd", 2, 0), FALSE),
                   RawDateString(DateLit("dmy", 3, 0), FALSE)}}

FilterOf(dateFrom, dateTo, branch, consignee, minFreightImpact, onlyDiversions) ==
  [ dateFrom |-> dateFrom, dateTo |-> dateTo, branch |-> branch, consignee |-> consignee,
    minFreightImpact |-> minFreightImpact, onlyDiversions |-> onlyDiversions ]

\* the texts a date input or the URL gives a date bound
BoundTexts == {EmptyDate, DateLit("ymd", 2, 0), JunkDate}

FilterStates ==
  {FilterOf(EmptyDate, EmptyDate, branch, consignee, Null, only) :
     branch \in {<<>>, <<"B1">>}, consignee \in {<<>>, <<"C1">>}, only \in BOOLEAN}
  \cup
  {FilterOf(EmptyDate, EmptyDate, <<>>, <<>>, threshold, only) :
     threshold \in {Num(0), Num(2), Num(-2), Num(3), NaN}, only \in BOOLEAN}
  \cup
  {FilterOf(dateFrom, dateTo, <<>>, <<>>, Null, only) :
     dateFrom \in BoundTexts, dateTo \in BoundTexts, only \in BOOLEAN}
  \cup
  {FilterOf(DateLit("ymd", 3, 0), EmptyDate, <<>>, <<>>, Null, TRUE),
   FilterOf(EmptyDate, DateLit("ymd", 1, 0), <<>>, <<>>, Null, TRUE),
   FilterOf(DateLit("ymd", 2, 0), DateLit("ymd", 2, 0), <<"B1">>, <<"C1">>, Num(-2), TRUE),
   FilterOf(DateLit("ymd", 1, 0), DateLit("ymd", 3, 0), <<"B1">>, <<>>, Num(3), FALSE)}

InitFilter ==
  /\ \E raws \in UNION {[1..n -> FilterRaws] : n \in 0..MaxRows} :
       rows = NormalizedBatch(raws)
  /\ filters \in FilterStates
  /\ filteredRows = <<>>
  /\ scorecards = NoScorecards
  /\ AggIdle
  /\ pc = "input"
  /\ NormIdle
  /\ UiIdle

SpecFilter == InitFilter /\ [][NextFilter]_vars

\* a record as the test fixture builds it: flagged as a diversion although
\* its lead difference, short lead distance and freight impact are null
NullFixtureRow ==
  [ normalizeRow(MkRaw(RawNull, RawNull, Txt("J3"), Txt("B1"), Txt("C1"),
                       RawDateString(DateLit("dmy", 2, 0), FALSE)), 0)
      EXCEPT !.isPotentialDiversion = TRUE ]

ScoreRaws ==
  {MkRaw(lead, RawString(<<"-", "2">>), ids[1], ids[2], ids[3],
         RawDateString(DateLit("dmy", 2, 0), FALSE)) :
     lead \in {NegLead, PosLead},
     ids \in {<<Txt("J1"), Txt("B1"), Txt("C1")>>, <<Txt("J2"), Txt("B1"), Txt("C1")>>,
              <<Txt("J1"), Txt("B2"), Txt("C2")>>, <<Undefined, Undefined, Undefined>>}}
  \cup
  {MkRaw(lead, impact, Txt("J1"), Txt("B1"), Txt("C1"),
         RawDateString(DateLit("dmy", 2, 0), FALSE)) :
     lead \in {NegLead, RawString(<<"-", "2", ".", "5">>), RawNull},
     impact \in {RawNull, RawString(<<"1">>), RawString(<<"-", "2">>)}}

ScoreRows == {normalizeRow(raw, 0) : raw \in ScoreRaws} \cup {NullFixtureRow}

InitScore ==
  /\ rows \in UNION {[1..n -> ScoreRows] : n \in 0..MaxScoreRows}
  /\ filters = DEFAULT_FILTERS
  /\ filteredRows = <<>>
  /\ scorecards = NoScorecards
  /\ AggIdle
  /\ pc = "input"
  /\ NormIdle
  /\ UiIdle

SpecScore == InitScore /\ [][NextScore]_vars

\* ------------------------------------------- the aggregations, one by one
ChartLimits == (1..MaxLimit) \cup {DefaultChartLimit}
PenaltyLimits == (1..MaxLimit) \cup {DefaultPenaltyLimit}

\* calculateBranchChart(rows, limit); without the argument limit is 10
CalculateBranchChart ==
  /\ pc = "input"
  /\ \E lim \in ChartLimits :
       /\ limit' = lim
       /\ model' = [model EXCEPT !.branchChart = calculateBranchChart(rows, lim)]
  /\ pc' = "branchChart"
  /\ UNCHANGED <<normVars, uiVars, rows, filters, filteredRows, scorecards>>

\* calculateConsigneeChart(rows, limit)
CalculateConsigneeChart ==
  /\ pc = "input"
  /\ \E lim \in ChartLimits :
       /\ limit' = lim
       /\ model' = [model EXCEPT !.consigneeChart = calculateConsigneeChart(rows, lim)]
  /\ pc' = "consigneeChart"
  /\ UNCHANGED <<normVars, uiVars, rows, filters, filteredRows, scorecards>>

\* calculateBranchTable(rows)
CalculateBranchTable ==
  /\ pc = "input"
  /\ model' = [model EXCEPT !.branchTable = calculateBranchTable(rows)]
  /\ pc' = "branchTable"
  /\ UNCHANGED <<normVars, uiVars, rows, filters, filteredRows, scorecards, limit>>

\* calculateConsigneeTable(rows)
CalculateConsigneeTable ==
  /\ pc = "input"
  /\ model' = [model EXCEPT !.consigneeTable = calculateConsigneeTable(rows)]
  /\ pc' = "consigneeTable"
  /\ UNCHANGED <<normVars, uiVars, rows, filters, filteredRows, scorecards, limit>>

\* calculateCorridorTable(rows)
CalculateCorridorTable ==
  /\ pc = "input"
  /\ model' = [model EXCEPT !.corridorTable = calculateCorridorTable(rows)]
  /\ pc' = "corridorTable"
  /\ UNCHANGED <<normVars, uiVars, rows, filters, filteredRows, scorecards, limit>>

\* calculatePenaltyCandidates(rows, limit); without the argument limit is 20
CalculatePenaltyCandidates ==
  /\ pc = "input"
  /\ \E lim \in PenaltyLimits :
       /\ limit' = lim
       /\ model' = [model EXCEPT !.penaltyCandidates = calculatePenaltyCandidates(rows, lim)]
  /\ pc' = "penaltyCandidates"
  /\ UNCHANGED <<normVars, uiVars, rows, filters, filteredRows, scorecards>>

NextAggregate ==
  \/ CalculateBranchChart
  \/ CalculateConsigneeChart
  \/ CalculateBranchTable
  \/ CalculateConsigneeTable
  \/ CalculateCorridorTable
  \/ CalculatePenaltyCandidates

\* a raw row with the cells the aggregations read
AggRaw(lead, impact, journey, branch, consignee, origin, stop, dateCell) ==
  ("origin_location" :> origin) @@ ("stop_location" :> stop)
    @@ MkRaw(lead, impact, journey, branch, consignee, dateCell)

Day2 == RawDateString(DateLit("dmy", 2, 0), FALSE)

\* the raw row under the record of the test fixture (see NullFixtureRow)
FixtureRaw ==
  ("fixture" :> RawBoolean)
    @@ AggRaw(RawNull, RawNull, Txt("J3"), Txt("B1"), Txt("C1"), Undefined, Undefined, Day2)

\* the records of a batch; the fixture's record is flagged by hand
AggBatch(raws) ==
  [m \in 1..Len(raws) |->
     LET r == normalizeRow(raws[m], m - 1)
     IN IF "fixture" \in DOMAIN raws[m] THEN [r EXCEPT !.isPotentialDiversion = TRUE] ELSE r]

AggRaws ==
  { AggRaw(NegLead, RawString(<<"-", "2">>), Txt("J1"), Txt("B1"), Txt("C1"),
           Txt("O1"), Txt("S1"), Day2),
    AggRaw(RawString(<<"-", "3">>), RawString(<<"-", "2">>), Txt("J2"), Txt("B2"), Txt("C2"),
           Txt("O1"), Txt("S1"), Day2),
    AggRaw(RawString(<<"-", "2", ".", "5">>), RawString(<<"3">>), Txt("J2"), Txt("B1"),
           Txt("C2"), Txt("O2"), Txt("S1"), Day2),
    AggRaw(NegLead, RawNull, Txt("J1"), Txt("B2"), Txt("C1"), Txt("O1"), Txt("S2"), Day2),
    AggRaw(NegLead, RawString(<<"1">>), Undefined, Undefined, Undefined,
           Undefined, Undefined, Day2),
    AggRaw(PosLead, RawString(<<"5">>), Txt("J3"), Txt("B1"), Txt("C1"),
           Txt("O2"), Txt("S2"), Day2),
    AggRaw(NegLead, RawString(<<"0">>), Txt("J3"), Txt("B1"), Txt("C1"),
           Txt("O1"), Txt("S1"), Day2),
    AggRaw(NegLead, RawString(<<"-", "5">>), Txt("J1"), Txt("B2"), Txt("C2"),
           Txt("O2"), Txt("S2"), Day2),
    AggRaw(RawNull, RawString(<<"1">>), Txt("J2"), Txt("B2"), Txt("C1"),
           Txt("O1"), Txt("S1"), Day2),
    AggRaw(NegLead, RawString(<<"-", "2">>), Txt("J1"), Txt("B1"), Txt("C1"),
           Undefined, Txt("S1"), Day2),
    AggRaw(NegLead, RawString(<<"1">>), Undefined, Txt("B1"), Txt("C1"),
           Txt("O1"), Txt("S1"), Day2),
    FixtureRaw }

InitAggregate ==
  /\ \E raws \in UNION {[1..n -> AggRaws] : n \in 0..MaxAggRows} : rows = AggBatch(raws)
  /\ filters = DEFAULT_FILTERS
  /\ filteredRows = <<>>
  /\ scorecards = NoScorecards
  /\ AggIdle
  /\ pc = "input"
  /\ NormIdle
  /\ UiIdle

SpecAggregate == InitAggregate /\ [][NextAggregate]_vars

\* ------------------------------------------------- the dashboard's model
\* buildDashboardModel(rows, filters), as the model memo of DashboardContent
\* and the tests call it
BuildDashboardModel ==
  /\ pc = "input"
  /\ model' = buildDashboardModel(rows, filters)
  /\ rows' = allRowsAfterBuild(rows, filters)
  /\ filters' = filtersAfterBuild(rows, filters)
  /\ pc' = "built"
  /\ UNCHANGED <<normVars, uiVars, filteredRows, scorecards, limit>>

ModelFilters ==
  {FilterOf(EmptyDate, EmptyDate, branch, <<>>, Null, only) :
     branch \in {<<>>, <<"B1">>}, only \in BOOLEAN}
  \cup
  {FilterOf(DateLit("ymd", 2, 0), EmptyDate, <<>>, <<>>, Null, only) : only \in BOOLEAN}
  \cup
  {FilterOf(EmptyDate, EmptyDate, <<>>, <<"C1">>, Num(3), only) : only \in BOOLEAN}

\* a filter control changes the filter state and the memo, which depends on
\* [allData, filters], calls buildDashboardModel again on the same rows
SetFilter ==
  /\ pc \in {"built", "rebuilt"}
  /\ \E f \in ModelFilters \ {filters} :
       /\ filters' = filtersAfterBuild(rows, f)
       /\ model' = buildDashboardModel(rows, f)
       /\ rows' = allRowsAfterBuild(rows, f)
  /\ pc' = "rebuilt"
  /\ UNCHANGED <<normVars, uiVars, filteredRows, scorecards, limit>>

NextModel == BuildDashboardModel \/ SetFilter

ModelRaws ==
  { AggRaw(NegLead, RawString(<<"-", "2">>), Txt("J1"), Txt("B2"), Txt("C1"),
           Txt("O1"), Txt("S1"), Day2),
    AggRaw(NegLead, RawString(<<"3">>), Txt("J2"), Txt("B1"), Txt("C2"),
           Undefined, Txt("S1"), RawDateString(DateLit("dmy", 1, 0), FALSE)),
    AggRaw(PosLead, RawString(<<"5">>), Txt("J3"), Txt("B1"), Txt("C1"),
           Txt("O1"), Txt("S1"), RawDateString(DateLit("ymdhms", 3, LastTick), FALSE)),
    AggRaw(NegLead, RawNull, Undefined, Undefined, Undefined,
           Txt("O1"), Undefined, RawDateString(JunkDate, FALSE)),
    AggRaw(PosLead, RawString(<<"-", "2">>), Txt("J1"), Txt("B2"), Txt("C2"),
           Txt("O2"), Txt("S2"), Undefined),
    AggRaw(NegLead, RawString(<<"-", "2">>), Txt("J1"), Txt("B1"), Txt("C1"),
           Txt("O1"), Txt("S1"), Day2) }

InitModel ==
  /\ \E raws \in UNION {[1..n -> ModelRaws] : n \in 0..MaxModelRows} :
       rows = NormalizedBatch(raws)
  /\ filters \in ModelFilters
  /\ filteredRows = <<>>
  /\ scorecards = NoScorecards
  /\ AggIdle
  /\ pc = "input"
  /\ NormIdle
  /\ UiIdle

SpecModel == InitModel /\ [][NextModel]_vars

\* ------------------------------------- inputs: locations with a separator
\* location texts, some of which hold the three bars of the corridor key
CorridorRaws ==
  {AggRaw(NegLead, RawString(<<"1">>), Txt("J1"), Txt("B1"), Txt("C1"), origin, stop, Day2) :
     origin \in {Undefined, Txt("A"), Txt("B"), RawString(<<"A", "|||", "B">>)},
     stop \in {Undefined, Txt("A"), Txt("B"), RawString(<<"B", "|||", "A">>)}}
  \cup
  {AggRaw(PosLead, RawString(<<"1">>), Txt("J1"), Txt("B1"), Txt("C1"),
          Txt("A"), Txt("B"), Day2)}

InitCorridor ==
  /\ \E raws \in UNION {[1..n -> CorridorRaws] : n \in 0..MaxCorridorRows} :
       rows = NormalizedBatch(raws)
  /\ filters = DEFAULT_FILTERS
  /\ filteredRows = <<>>
  /\ scorecards = NoScorecards
  /\ AggIdle
  /\ pc = "input"
  /\ NormIdle
  /\ UiIdle

\* calculateCorridorTable alone, on rows whose locations may hold the bars
SpecCorridor == InitCorridor /\ [][CalculateCorridorTable]_vars

\* ------------------------------------------------- the Genie context built
\* buildGenieContext(model, filters, lastUpdated) on the model of the page
BuildGenieContext ==
  /\ pc = "built"
  /\ genie' = topPenaltyCandidates(model)
  /\ pc' = "genie"
  /\ UNCHANGED <<normVars, dashVars, fetchVars, url, call>>

\* anomaly rows with impacts of several sizes, and one row that is no anomaly
GenieRaws ==
  { AggRaw(NegLead, RawString(<<"-", "2">>), Txt("J1"), Txt("B1"), Txt("C1"),
           Txt("O1"), Txt("S1"), Day2),
    AggRaw(RawString(<<"-", "2", ".", "5">>), RawString(<<"3", ".", "5">>), Txt("J2"),
           Txt("B2"), Txt("C2"), Txt("O1"), Txt("S1"), Day2),
    AggRaw(NegLead, RawString(<<"0">>), Txt("J3"), Txt("B1"), Txt("C2"),
           Txt("O1"), Txt("S1"), Day2),
    AggRaw(PosLead, RawString(<<"5">>), Txt("J4"), Txt("B1"), Txt("C1"),
           Txt("O1"), Txt("S1"), Day2) }

InitGenie ==
  /\ \E raws \in UNION {[1..n -> GenieRaws] : n \in 0..MaxGenieRows} :
       rows = NormalizedBatch(raws)
  /\ filters = DEFAULT_FILTERS
  /\ filteredRows = <<>>
  /\ scorecards = NoScorecards
  /\ AggIdle
  /\ pc = "input"
  /\ NormIdle
  /\ UiIdle

SpecGenie == InitGenie /\ [][BuildDashboardModel \/ BuildGenieContext]_vars

\* --------------------------------------------------------------- fetchData
\* fetchData(isRefresh) up to its first await: the flags are set and the
\* request leaves
StartFetch(isRefresh, by) ==
  /\ started < MaxFetches
  /\ started' = started + 1
  /\ inflight' = inflight \cup {[id |-> started + 1, isRefresh |-> isRefresh, by |-> by]}
  /\ IF isRefresh
     THEN /\ isRefreshing' = TRUE
          /\ UNCHANGED <<isLoading, initialLoadError>>
     ELSE /\ isLoading' = TRUE
          /\ initialLoadError' = NoError
          /\ UNCHANGED isRefreshing
  /\ UNCHANGED <<allData, lastUpdated, toasts, responses>>

\* the effect that runs once after the first render: fetchData(false)
InitialFetch ==
  /\ pc = "mount"
  /\ StartFetch(FALSE, "mount")
  /\ pc' = "mounted"
  /\ UNCHANGED <<normVars, dashVars, genie, url, call>>

\* the interval of AUTO_REFRESH_INTERVAL_MS fires: fetchData(true)
AutoRefresh ==
  /\ pc = "mounted"
  /\ StartFetch(TRUE, "timer")
  /\ UNCHANGED <<normVars, dashVars, genie, url, call, pc>>

\* the Refresh button of the header, disabled while isRefreshing
ClickRefresh ==
  /\ pc = "mounted"
  /\ ~isRefreshing
  /\ StartFetch(TRUE, "click")
  /\ UNCHANGED <<normVars, dashVars, genie, url, call, pc>>

\* the Try Again button of the error screen: fetchData(false)
ClickTryAgain ==
  /\ pc = "mounted"
  /\ ~isLoading
  /\ initialLoadError # NoError
  /\ StartFetch(FALSE, "retry")
  /\ UNCHANGED <<normVars, dashVars, genie, url, call, pc>>

\* the row lists and the messages the endpoint answers with
FetchDatasets ==
  { <<>>,
    NormalizedBatch(<<AggRaw(NegLead, RawString(<<"-", "2">>), Txt("J1"), Txt("B1"),
                             Txt("C1"), Txt("O1"), Txt("S1"), Day2)>>) }
ErrorMessages == {<<"Failed to fetch">>, <<"E1">>}

\* a response without an error field arrives: the try block runs to its
\* end, then the finally block
FetchSucceeds ==
  /\ \E f \in inflight, data \in FetchDatasets, at \in 1..MaxClock :
       /\ allData' = data
       /\ lastUpdated' = At(at)
       /\ inflight' = inflight \ {f}
       /\ responses' = (f.id :> [ok |-> TRUE, isRefresh |-> f.isRefresh, data |-> data,
                                  fetchedAt |-> at, message |-> <<>>]) @@ responses
  /\ isLoading' = FALSE
  /\ isRefreshing' = FALSE
  /\ UNCHANGED <<normVars, dashVars, genie, url, call, pc, initialLoadError, toasts, started>>

\* the request fails or the response has an error field: the catch block,
\* then the finally block
FetchFails ==
  /\ \E f \in inflight, errorMessage \in ErrorMessages :
       /\ initialLoadError' =
            initialLoadErrorAfterCatch(f.isRefresh, errorMessage, initialLoadError)
       /\ toasts' = toastsAfterCatch(f.isRefresh, errorMessage, toasts, f.id)
       /\ inflight' = inflight \ {f}
       /\ responses' = (f.id :> [ok |-> FALSE, isRefresh |-> f.isRefresh, data |-> <<>>,
                                  fetchedAt |-> 0, message |-> errorMessage]) @@ responses
  /\ isLoading' = FALSE
  /\ isRefreshing' = FALSE
  /\ UNCHANGED <<normVars, dashVars, genie, url, call, pc, allData, lastUpdated, started>>

\* a toast is closed, by its timer or by its button
DismissToast ==
  /\ \E j \in 1..Len(toasts) : toasts' = dismissToast(toasts, toasts[j].id)
  /\ UNCHANGED <<normVars, dashVars, genie, url, call, pc, allData, lastUpdated, isLoading,
                 isRefreshing, initialLoadError, inflight, started, responses>>

NextFetch ==
  \/ InitialFetch
  \/ AutoRefresh
  \/ ClickRefresh
  \/ ClickTryAgain
  \/ FetchSucceeds
  \/ FetchFails
  \/ DismissToast

InitFetch ==
  /\ pc = "mount"
  /\ NormIdle
  /\ DashIdle
  /\ UiIdle

SpecFetch == InitFetch /\ [][NextFetch]_vars

\* --------------------------------------------------------- useFilterParams
\* the values a filter control hands to setFilter for a key
FilterValues(key) ==
  CASE key \in {"dateFrom", "dateTo"} ->
         {FilterValue("string", <<>>, d, Null, FALSE) : d \in {EmptyDate, DateLit("ymd", 2, 0)}}
    [] key \in {"branch", "consignee"} ->
         {FilterValue("string", s, EmptyDate, Null, FALSE) : s \in {<<>>, <<"B1">>}}
    [] key = "minFreightImpact" ->
         {NoCall.value} \cup
         {FilterValue("number", <<>>, EmptyDate, n, FALSE) : n \in {Num(0), Num(3)}}
    [] key = "onlyDiversions" ->
         {FilterValue("boolean", <<>>, EmptyDate, Null, b) : b \in BOOLEAN}

\* a filter control calls setFilter; router.replace gives the page its new
\* query parameters and the filters memo reads them
SetFilterParam ==
  /\ \E key \in FilterKeys :
       \E value \in FilterValues(key) :
         /\ call' = [key |-> key, value |-> value]
         /\ url' = setFilter(url, key, value)
         /\ filters' = filtersFromUrl(setFilter(url, key, value),
                                      defaultDateFrom(dateRangeOf(allData)))
  /\ pc' = "setFilter"
  /\ UNCHANGED <<normVars, rows, filteredRows, scorecards, model, limit, genie, fetchVars>>

\* resetFilters: router.replace(pathname)
ResetFilters ==
  /\ url # EmptyUrl
  /\ url' = EmptyUrl
  /\ filters' = filtersFromUrl(EmptyUrl, defaultDateFrom(dateRangeOf(allData)))
  /\ call' = NoCall
  /\ pc' = "resetFilters"
  /\ UNCHANGED <<normVars, rows, filteredRows, scorecards, model, limit, genie, fetchVars>>

\* the data on the page: none yet, or rows whose dates span a day or a
\* longer time than the default window
UrlDatasets ==
  { <<>>,
    NormalizedBatch(<<AggRaw(NegLead, RawString(<<"-", "2">>), Txt("J1"), Txt("B1"),
                             Txt("C1"), Txt("O1"), Txt("S1"), Day2)>>),
    NormalizedBatch(<<AggRaw(NegLead, RawString(<<"-", "2">>), Txt("J1"), Txt("B1"),
                             Txt("C1"), Txt("O1"), Txt("S1"),
                             RawDateString(DateLit("dmy", 1, 0), FALSE)),
                      AggRaw(NegLead, RawString(<<"3">>), Txt("J2"), Txt("B1"),
                             Txt("C1"), Txt("O1"), Txt("S1"),
                             RawDateString(DateLit("dmy", DefaultWindowDays + 3, 0), FALSE))>>) }

\* the page opened with no query, or from a link that carries one
InitialUrls ==
  { EmptyUrl,
    [EmptyUrl EXCEPT !.branch = TextParam(<<"B1">>)],
    [EmptyUrl EXCEPT !.from = [present |-> TRUE, s |-> <<>>, d |-> DateLit("ymd", 2, 0)],
                     !.diversions = TextParam(<<"false">>)],
    [EmptyUrl EXCEPT !.minImpact = TextParam(<<"x">>)] }

InitUrl ==
  /\ allData \in UrlDatasets
  /\ lastUpdated = At(1)
  /\ isLoading = FALSE
  /\ isRefreshing = FALSE
  /\ initialLoadError = NoError
  /\ toasts = <<>>
  /\ inflight = {}
  /\ started = 1
  /\ responses = <<>>
  /\ url \in InitialUrls
  /\ filters = filtersFromUrl(url, defaultDateFrom(dateRangeOf(allData)))
  /\ call = NoCall
  /\ genie = <<>>
  /\ rows = <<>>
  /\ filteredRows = <<>>
  /\ scorecards = NoScorecards
  /\ AggIdle
  /\ pc = "rendered"
  /\ NormIdle

SpecUrl == InitUrl /\ [][SetFilterParam \/ ResetFilters]_vars

\* ------------------------------------------------ claims on normalization
\* the positions (from 1) of the first n raw rows that the schema accepts
RECURSIVE AcceptedUpTo(_, _)
AcceptedUpTo(batch, n) ==
  IF n = 0 THEN <<>>
  ELSE IF RawRowSchemaAccepts(batch[n])
       THEN Append(AcceptedUpTo(batch, n - 1), n)
       ELSE AcceptedUpTo(batch, n - 1)

\* C1: in every record normalizeRow returns, diffInLead is the coerced
\* "Diff in lead" cell and nothing else; isPotentialDiversion holds exactly
\* when that value is a number below 0, and shortLeadDistanceKm is null when
\* it is null and its absolute value otherwise (0 gives false and 0).
C1_AnomalyPredicate ==
  \A m \in 1..Len(results) :
    LET r == results[m]
        cell == Get(rawRows[AcceptedUpTo(rawRows, i)[m]], "Diff in lead")
        d == r.diffInLead
    IN /\ d = safeParseNumber(cell)
       /\ r.isPotentialDiversion = (d.k \in {"num", "inf"} /\ d.v < 0)
       /\ d = Null => r.shortLeadDistanceKm = Null
       /\ d # Null =>
            /\ r.shortLeadDistanceKm.k = d.k
            /\ r.shortLeadDistanceKm.d = d.d
            /\ r.shortLeadDistanceKm.v >= 0
            /\ r.shortLeadDistanceKm.v \in {d.v, -d.v}

\* a negative lead next to a positive freight impact and other filled cells
C1_Witness ==
  /\ pc = "returned"
  /\ Len(results) = 1
  /\ results[1].isPotentialDiversion
  /\ results[1].shortLeadDistanceKm = Rat(1, 10)
  /\ results[1].freightImpact = Num(500)
  /\ results[1].customerLoadId = <<"L", "1">>

\* C2: every nullable numeric field of a record normalizeRow returns is a
\* finite number or null.
C2_NumericFieldsFinite ==
  \A m \in 1..Len(results) :
    \A f \in NumericRecordFields :
      results[m][f] = Null \/ isFinite(results[m][f])

\* C3: normalizeRows returns after visiting every row; the records returned
\* are those of the accepted rows, in input order, each equal to what
\* normalizeRow gives for that row at its original index, and one warning
\* is logged per rejected row.
C3_PartialFailureIsolation ==
  pc = "returned" =>
    LET accepted == AcceptedUpTo(rawRows, Len(rawRows))
        k == Cardinality({j \in 1..Len(rawRows) : ~RawRowSchemaAccepts(rawRows[j])})
    IN /\ i = Len(rawRows)
       /\ Len(results) = Len(rawRows) - k
       /\ Len(warned) = k
       /\ \A m \in 1..Len(results) :
            results[m] = normalizeRow(rawRows[accepted[m]], accepted[m] - 1)
       /\ \A m \in 1..(Len(accepted) - 1) : accepted[m] < accepted[m + 1]

\* a rejected row between two accepted ones; the last keeps its index 2
C3_Witness ==
  /\ pc = "returned"
  /\ Len(rawRows) = 3
  /\ RawRowSchemaAccepts(rawRows[1])
  /\ ~RawRowSchemaAccepts(rawRows[2])
  /\ Len(results) = 2
  /\ results[2].id = <<"row-", "2">>
  /\ warned = <<1>>

\* --------------------------------------------------- claims on filtering
Range(seq) == {seq[j] : j \in 1..Len(seq)}

\* the m-th smallest member of a finite set of positions
NthOf(S, m) == CHOOSE j \in S : Cardinality({x \in S : x < j}) = m - 1

\* the members of rs at the positions in S, in their order in rs
Restrict(rs, S) == [m \in 1..Cardinality(S) |-> rs[NthOf(S, m)]]

RECURSIVE IsSubSeq(_, _)
IsSubSeq(a, b) ==
  IF a = <<>> THEN TRUE
  ELSE IF b = <<>> THEN FALSE
  ELSE IF Head(a) = Head(b) THEN IsSubSeq(Tail(a), Tail(b))
  ELSE IsSubSeq(a, Tail(b))

Filtered == pc \in {"filtered", "refiltered"}

\* the five rules as the claims word them
KeepsByToggle(r, f) == f.onlyDiversions => r.isPotentialDiversion
KeepsByBranch(r, f) == f.branch # <<>> => r.branchName = f.branch
KeepsByConsignee(r, f) == f.consignee # <<>> => r.nearestConsignee = f.consignee

ThresholdActive(f) == f.minFreightImpact # Null /\ f.minFreightImpact # Num(0)
\* |x| < |t| for finite x and t (never for a NaN threshold)
BelowMagnitude(x, t) ==
  x.k = "num" /\ t.k = "num" /\ AbsInt(x.v) * t.d < AbsInt(t.v) * x.d
KeepsByImpact(r, f) ==
  ThresholdActive(f) =>
    r.freightImpact # Null /\ ~BelowMagnitude(r.freightImpact, f.minFreightImpact)

DateBoundSet(f) == f.dateFrom # EmptyDate \/ f.dateTo # EmptyDate
Unparseable(r) == dateOf(r).fmt \in {"empty", "junk"}
InstantOf(r) == parseDate(dateOf(r)).t
StartOfDay(day) == day * DayLen - TzOffset
EndOfDay(day) == StartOfDay(day + 1) - 1
InDateRange(r, f) ==
  /\ f.dateFrom.fmt = "ymd" => InstantOf(r) >= StartOfDay(f.dateFrom.day)
  /\ f.dateTo.fmt = "ymd" => InstantOf(r) <= EndOfDay(f.dateTo.day)
KeepsByDate(r, f) == DateBoundSet(f) => (~Unparseable(r) /\ InDateRange(r, f))

\* C4: the result of applyFilters is the input restricted, in order, to the
\* rows that pass every active rule; under onlyDiversions every row returned
\* is an anomaly, under a branch / consignee filter every row returned has
\* that branch / consignee, and the default filters return exactly the
\* anomaly rows.
C4_ExactSubsequence ==
  Filtered =>
    LET kept == {j \in 1..Len(rows) :
                   /\ KeepsByToggle(rows[j], filters)
                   /\ KeepsByBranch(rows[j], filters)
                   /\ KeepsByConsignee(rows[j], filters)
                   /\ KeepsByImpact(rows[j], filters)
                   /\ KeepsByDate(rows[j], filters)}
    IN /\ filteredRows = Restrict(rows, kept)
       /\ filters.onlyDiversions => \A r \in Range(filteredRows) : r.isPotentialDiversion
       /\ filters.branch # <<>> =>
            \A r \in Range(filteredRows) : r.branchName = filters.branch
       /\ filters.consignee # <<>> =>
            \A r \in Range(filteredRows) : r.nearestConsignee = filters.consignee
       /\ filters = DEFAULT_FILTERS =>
            filteredRows = Restrict(rows, {j \in 1..Len(rows) : rows[j].isPotentialDiversion})

\* a branch filter that keeps the second of two rows only
C4_Witness ==
  /\ pc = "filtered"
  /\ filters.branch = <<"B1">>
  /\ filters.onlyDiversions
  /\ Len(rows) = 2
  /\ rows[1].branchName = <<"B2">>
  /\ rows[1].isPotentialDiversion
  /\ filteredRows = <<rows[2]>>

\* C5: with a non-zero threshold no returned row has a null freight impact
\* or one smaller in magnitude than the threshold, and the threshold's sign
\* does not change the result; with a null or zero threshold every row that
\* passes the other rules is returned, null freight impact included.
C5_MinFreightImpact ==
  Filtered =>
    LET t == filters.minFreightImpact
        negated == IF t.k = "num" THEN [t EXCEPT !.v = -t.v] ELSE t
    IN /\ ThresholdActive(filters) =>
            \A j \in 1..Len(rows) :
              (rows[j].freightImpact = Null \/ BelowMagnitude(rows[j].freightImpact, t))
                => rows[j] \notin Range(filteredRows)
       /\ filteredRows = applyFilters(rows, [filters EXCEPT !.minFreightImpact = negated])
       /\ ~ThresholdActive(filters) =>
            \A j \in 1..Len(rows) :
              ( /\ KeepsByToggle(rows[j], filters)
                /\ KeepsByBranch(rows[j], filters)
                /\ KeepsByConsignee(rows[j], filters)
                /\ KeepsByDate(rows[j], filters) )
                => rows[j] \in Range(filteredRows)

\* threshold -2: the row with impact 3 stays, the row with impact 1 goes
C5_Witness ==
  /\ pc = "filtered"
  /\ filters.minFreightImpact = Num(-2)
  /\ Len(rows) = 2
  /\ rows[1].freightImpact = Num(1)
  /\ rows[2].freightImpact = Num(3)
  /\ filteredRows = <<rows[2]>>

\* C6: with a day as date bound, a row with a parseable date that passes the
\* other rules is returned exactly when its instant is not before the start
\* of the dateFrom day and not after the last tick of the dateTo day.
C6_DateRangeInclusive ==
  ( /\ Filtered
    /\ DateBoundSet(filters)
    /\ filters.dateFrom.fmt \in {"empty", "ymd"}
    /\ filters.dateTo.fmt \in {"empty", "ymd"} ) =>
    \A j \in 1..Len(rows) :
      ( /\ ~Unparseable(rows[j])
        /\ KeepsByToggle(rows[j], filters)
        /\ KeepsByBranch(rows[j], filters)
        /\ KeepsByConsignee(rows[j], filters)
        /\ KeepsByImpact(rows[j], filters) )
        => (rows[j] \in Range(filteredRows) <=> InDateRange(rows[j], filters))

\* dateFrom = dateTo = day 2: the row of the last tick of day 2 stays, the
\* row of day 3 goes
C6_Witness ==
  /\ pc = "filtered"
  /\ filters.dateFrom = DateLit("ymd", 2, 0)
  /\ filters.dateTo = DateLit("ymd", 2, 0)
  /\ Len(rows) = 2
  /\ rows[1].date = DateLit("ymdhms", 2, DayLen - 1)
  /\ rows[2].date = DateLit("dmy", 3, 0)
  /\ filteredRows = <<rows[1]>>

\* C7: while a date bound is set no row with an unparseable date is
\* returned, and a batch of such rows gives the empty list.
C7_UnparseableExcluded ==
  (Filtered /\ DateBoundSet(filters)) =>
    /\ \A j \in 1..Len(rows) : Unparseable(rows[j]) => rows[j] \notin Range(filteredRows)
    /\ (\A j \in 1..Len(rows) : Unparseable(rows[j])) => filteredRows = <<>>

\* two anomaly rows, one without a date and one with junk, none returned
C7_Witness ==
  /\ pc = "filtered"
  /\ filters.dateTo = DateLit("ymd", 2, 0)
  /\ Len(rows) = 2
  /\ rows[1].dateISO = EmptyDate
  /\ rows[2].dateISO = JunkDate
  /\ rows[1].isPotentialDiversion
  /\ filteredRows = <<>>

\* C8: applyFilters never returns more rows than it is given, and switching
\* onlyDiversions from false to true, all else equal, leaves a sub-list of
\* the previous result.
C8_FilterMonotone ==
  /\ [](Filtered => Len(filteredRows) <= Len(rows))
  /\ [][ (Filtered /\ ~filters.onlyDiversions /\ filters'.onlyDiversions)
           => ( /\ IsSubSeq(filteredRows', filteredRows)
                /\ Len(filteredRows') <= Len(filteredRows) ) ]_vars

\* the toggle has been switched on and has dropped a non-anomaly row that
\* passes the branch filter
C8_Witness ==
  /\ pc = "refiltered"
  /\ filters.onlyDiversions
  /\ filters.branch = <<"B1">>
  /\ Len(rows) = 2
  /\ ~rows[1].isPotentialDiversion
  /\ rows[1].branchName = <<"B1">>
  /\ filteredRows = <<rows[2]>>

\* -------------------------------------------------- claims on scorecards
Scored == pc = "scored"

AnomalyPositions == {j \in 1..Len(rows) : rows[j].isPotentialDiversion}

\* the anomaly positions where a non-empty value of the field occurs for the
\* first time among the anomaly rows
FirstOccurrences(field(_)) ==
  {j \in AnomalyPositions :
     /\ field(rows[j]) # <<>>
     /\ \A h \in AnomalyPositions : h < j => field(rows[h]) # field(rows[j])}

\* C9: the three counts of calculateScorecards are the numbers of distinct
\* non-empty journeyId, nearestConsignee and branchName values among the
\* anomaly rows: a repeated value counts once, an empty value and a
\* non-anomaly row count nothing.
C9_DistinctCounts ==
  Scored =>
    /\ scorecards.totalDivertedJourneys
         = Cardinality(FirstOccurrences(LAMBDA r : r.journeyId))
    /\ scorecards.totalConsigneesInvolved
         = Cardinality(FirstOccurrences(LAMBDA r : r.nearestConsignee))
    /\ scorecards.totalBranchesWithDiversions
         = Cardinality(FirstOccurrences(LAMBDA r : r.branchName))

\* two anomaly rows of one journey, an anomaly row without identifiers
C9_Witness ==
  /\ Scored
  /\ Len(rows) = 3
  /\ AnomalyPositions = {1, 2, 3}
  /\ rows[1].journeyId = <<"J1">> /\ rows[2].journeyId = <<"J1">>
  /\ rows[1].branchName # rows[2].branchName
  /\ rows[3].journeyId = <<>> /\ rows[3].branchName = <<>>
  /\ rows[3].nearestConsignee = <<>>
  /\ scorecards.totalDivertedJourneys = 1
  /\ scorecards.totalBranchesWithDiversions = 2
  /\ scorecards.totalConsigneesInvolved = 2

\* the sum of a function of numbers over its finite domain
RECURSIVE SumFn(_)
SumFn(fn) ==
  IF DOMAIN fn = {} THEN Num(0)
  ELSE LET j == CHOOSE x \in DOMAIN fn : TRUE
       IN Add(fn[j], SumFn([x \in DOMAIN fn \ {j} |-> fn[x]]))

\* |x|, with null counting as 0
Magnitude(x) ==
  IF x = Null THEN Num(0) ELSE IF x.v < 0 THEN [x EXCEPT !.v = -x.v] ELSE x

\* the anomaly positions with a short lead distance
LeadPositions == {j \in AnomalyPositions : rows[j].shortLeadDistanceKm # Null}

\* C10: totalPotentialRecovery is the sum of |freightImpact| over the
\* anomaly rows, null counting as 0; avgShortLeadDistance and
\* maxDivertedDistance are the mean and the maximum of the non-null
\* shortLeadDistanceKm values of the anomaly rows, and 0 when there are none.
C10_RecoveryMeanMax ==
  Scored =>
    LET total == SumFn([j \in AnomalyPositions |-> Magnitude(rows[j].freightImpact)])
        leadSum == SumFn([j \in LeadPositions |-> rows[j].shortLeadDistanceKm])
        avg == scorecards.avgShortLeadDistance
        max == scorecards.maxDivertedDistance
    IN /\ scorecards.totalPotentialRecovery = total
       /\ LeadPositions = {} => (avg = Num(0) /\ max = Num(0))
       /\ LeadPositions # {} =>
            /\ avg.k = "num"
            /\ avg.v * leadSum.d * Cardinality(LeadPositions) = leadSum.v * avg.d
            /\ \E j \in LeadPositions : rows[j].shortLeadDistanceKm = max
            /\ \A j \in LeadPositions : ~Lt(max, rows[j].shortLeadDistanceKm)

\* a flagged row with nulls, leads of -5 and -2.5, impacts of -2 and 1
C10_Witness ==
  /\ Scored
  /\ Len(rows) = 3
  /\ rows[1] = NullFixtureRow
  /\ rows[2].diffInLead = Num(-5) /\ rows[2].freightImpact = Num(-2)
  /\ rows[3].diffInLead = Rat(-5, 2) /\ rows[3].freightImpact = Num(1)
  /\ scorecards.totalPotentialRecovery = Num(3)
  /\ scorecards.avgShortLeadDistance = Rat(15, 4)
  /\ scorecards.maxDivertedDistance = Num(5)

\* ------------------------------------------------ claims on aggregation
Min(a, b) == IF a < b THEN a ELSE b

\* the anomaly positions whose key is the given non-empty key
GroupOf(keys, key) == {j \in AnomalyPositions : keys[j] = key}

\* the distinct non-empty keys of the anomaly rows
KeysOf(keys) == {keys[j] : j \in AnomalyPositions} \ {<<>>}

\* the sum of |freightImpact| over the rows at the positions
RecoveryOf(S) == SumFn([j \in S |-> Magnitude(rows[j].freightImpact)])

\* the distinct non-empty journey ids of the rows at the positions
JourneysOf(S) == {rows[j].journeyId : j \in S} \ {<<>>}

\* the positions, among the given ones, of the rows with a short lead distance
WithShortLead(S) == {j \in S : rows[j].shortLeadDistanceKm # Null}

\* avg is the mean of the short lead distances at the positions, 0 for none
IsMeanShortLead(avg, S) ==
  LET L == WithShortLead(S)
      leadSum == SumFn([j \in L |-> rows[j].shortLeadDistanceKm])
  IN IF L = {} THEN avg = Num(0)
     ELSE avg.k = "num" /\ avg.v * leadSum.d * Cardinality(L) = leadSum.v * avg.d

\* max is the largest short lead distance at the positions, 0 for none
IsMaxShortLead(max, S) ==
  LET L == WithShortLead(S)
  IN IF L = {} THEN max = Num(0)
     ELSE /\ \E j \in L : rows[j].shortLeadDistanceKm = max
          /\ \A j \in L : ~Lt(max, rows[j].shortLeadDistanceKm)

BranchKeys == [j \in 1..Len(rows) |-> rows[j].branchName]
ConsigneeKeys == [j \in 1..Len(rows) |-> rows[j].nearestConsignee]

\* what C12 says of the points of a chart grouped by the keys
ChartAsClaimed(points, keys) ==
  LET shown == {points[j].name : j \in 1..Len(points)}
  IN /\ Len(points) = Min(limit, Cardinality(KeysOf(keys)))
     /\ shown \subseteq KeysOf(keys)
     /\ Cardinality(shown) = Len(points)
     /\ \A j \in 1..Len(points) :
          /\ points[j].recovery = RecoveryOf(GroupOf(keys, points[j].name))
          /\ points[j].count = Cardinality(GroupOf(keys, points[j].name))
     /\ \A j, h \in 1..Len(points) : j < h => ~Lt(points[j].recovery, points[h].recovery)
     /\ \A key \in KeysOf(keys) \ shown :
          \A j \in 1..Len(points) : ~Lt(points[j].recovery, RecoveryOf(GroupOf(keys, key)))

\* C12: each chart has one point per distinct non-empty key of the anomaly
\* rows, its recovery the sum of |freightImpact| and its count the number of
\* anomaly rows of that key; the points are in descending order of recovery,
\* only the first limit of them are kept, and no point has the empty key.
C12_ChartPoints ==
  /\ pc = "branchChart" => ChartAsClaimed(model.branchChart, BranchKeys)
  /\ pc = "consigneeChart" => ChartAsClaimed(model.consigneeChart, ConsigneeKeys)

\* three anomaly rows, one without a branch; the limit of 1 keeps the branch
\* of the larger recovery, which is seen last
C12_Witness ==
  /\ pc = "branchChart"
  /\ limit = 1
  /\ Len(rows) = 3
  /\ AnomalyPositions = {1, 2, 3}
  /\ rows[1].branchName = <<"B1">> /\ rows[1].freightImpact = Num(-2)
  /\ rows[2].branchName = <<>> /\ rows[2].freightImpact = Num(1)
  /\ rows[3].branchName = <<"B2">> /\ rows[3].freightImpact = Num(-5)
  /\ model.branchChart = <<[name |-> <<"B2">>, recovery |-> Num(5), count |-> 1]>>

\* C13: the branch table has one row per distinct non-empty branchName of the
\* anomaly rows; divertedJourneys counts the distinct non-empty journeyIds of
\* the branch, totalRecovery sums |freightImpact|, avgShortLead and
\* maxShortLead are the mean and the maximum of its non-null
\* shortLeadDistanceKm values, both 0 when it has none.
C13_BranchTable ==
  pc = "branchTable" =>
    LET t == model.branchTable
        shown == {t[j].branchName : j \in 1..Len(t)}
    IN /\ shown = KeysOf(BranchKeys)
       /\ Len(t) = Cardinality(shown)
       /\ \A j \in 1..Len(t) :
            LET G == GroupOf(BranchKeys, t[j].branchName)
            IN /\ t[j].divertedJourneys = Cardinality(JourneysOf(G))
               /\ t[j].totalRecovery = RecoveryOf(G)
               /\ IsMeanShortLead(t[j].avgShortLead, G)
               /\ IsMaxShortLead(t[j].maxShortLead, G)

\* branch B2 with two rows of one journey, branch B1 with the flagged row
\* that has no short lead distance
C13_Witness ==
  /\ pc = "branchTable"
  /\ Len(rows) = 3
  /\ model.branchTable =
       << [branchName |-> <<"B2">>, divertedJourneys |-> 1, totalRecovery |-> Num(5),
           avgShortLead |-> Num(5), maxShortLead |-> Num(5)],
          [branchName |-> <<"B1">>, divertedJourneys |-> 1, totalRecovery |-> Num(0),
           avgShortLead |-> Num(0), maxShortLead |-> Num(0)] >>

\* C14: the repeatRate of every row of the counterparty table is the number
\* of distinct non-empty journeyIds of that counterparty's anomaly rows
\* divided by the number of distinct non-empty journeyIds of all anomaly
\* rows, times 100; it is 0, and not NaN, when that total is 0.
C14_RepeatRate ==
  pc = "consigneeTable" =>
    LET t == model.consigneeTable
        total == Cardinality(JourneysOf(AnomalyPositions))
    IN /\ {t[j].consignee : j \in 1..Len(t)} = KeysOf(ConsigneeKeys)
       /\ \A j \in 1..Len(t) :
            LET size == Cardinality(JourneysOf(GroupOf(ConsigneeKeys, t[j].consignee)))
                rate == t[j].repeatRate
            IN /\ rate.k = "num"
               /\ total = 0 => rate = Num(0)
               /\ total > 0 => rate.v * total = size * 100 * rate.d

\* counterparty C1 has one of the two journeys of the anomaly rows
C14_Witness ==
  /\ pc = "consigneeTable"
  /\ Len(rows) = 3
  /\ Cardinality(JourneysOf(AnomalyPositions)) = 2
  /\ \E j \in 1..Len(model.consigneeTable) :
       /\ model.consigneeTable[j].consignee = <<"C1">>
       /\ model.consigneeTable[j].divertedJourneys = 1
       /\ model.consigneeTable[j].repeatRate = Num(50)

\* C15: the branch table and the counterparty table are in non-increasing
\* order of totalRecovery and the corridor table in non-increasing order of
\* count, whatever the recoveries of the corridors.
C15_SortDirections ==
  /\ pc = "branchTable" =>
       \A j, h \in 1..Len(model.branchTable) :
         j < h => ~Lt(model.branchTable[j].totalRecovery, model.branchTable[h].totalRecovery)
  /\ pc = "consigneeTable" =>
       \A j, h \in 1..Len(model.consigneeTable) :
         j < h =>
           ~Lt(model.consigneeTable[j].totalRecovery, model.consigneeTable[h].totalRecovery)
  /\ pc = "corridorTable" =>
       \A j, h \in 1..Len(model.corridorTable) :
         j < h => model.corridorTable[j].count >= model.corridorTable[h].count

\* the corridor seen twice precedes the corridor seen once, which is seen
\* first and has the higher recovery
C15_Witness ==
  /\ pc = "corridorTable"
  /\ Len(rows) = 3
  /\ rows[1].originLocation = <<"O2">>
  /\ Len(model.corridorTable) = 2
  /\ model.corridorTable[1].origin = <<"O1">>
  /\ model.corridorTable[1].count = 2
  /\ model.corridorTable[1].totalRecovery = Num(4)
  /\ model.corridorTable[2].origin = <<"O2">>
  /\ model.corridorTable[2].count = 1
  /\ model.corridorTable[2].totalRecovery = Num(5)

\* the fields calculatePenaltyCandidates keeps of a row
Project(r) ==
  [ journeyId |-> r.journeyId, branchName |-> r.branchName,
    consignee |-> r.nearestConsignee, diffInLead |-> r.diffInLead,
    freightImpact |-> r.freightImpact, originLocation |-> r.originLocation,
    stopLocation |-> r.stopLocation,
    dropClosestPingAddress |-> r.dropClosestPingAddress, date |-> r.date ]

\* the positions of the rows with a freight impact
ImpactPositions == {j \in 1..Len(rows) : rows[j].freightImpact # Null}

\* the penalty list is the projection of the rows at the positions S, in
\* descending order of |freightImpact|, cut to the limit: nothing but rows
\* of S, none more often than S has it, and every row of S is listed unless
\* the list is full of rows that are not smaller
PenaltyListOf(S) ==
  LET out == model.penaltyCandidates
  IN /\ Len(out) = Min(limit, Cardinality(S))
     /\ \A j \in 1..Len(out) :
          Cardinality({h \in 1..Len(out) : out[h] = out[j]})
            <= Cardinality({p \in S : Project(rows[p]) = out[j]})
     /\ \A j, h \in 1..Len(out) :
          j < h => ~Lt(Magnitude(out[j].freightImpact), Magnitude(out[h].freightImpact))
     /\ \A p \in S :
          \/ Project(rows[p]) \in Range(out)
          \/ /\ Len(out) = limit
             /\ \A j \in 1..Len(out) :
                  ~Lt(Magnitude(out[j].freightImpact), Magnitude(rows[p].freightImpact))

\* C17 as stated: the penalty list holds the input rows with a non-null
\* freightImpact, by |freightImpact| descending, cut to the limit, each
\* projected to the nine display fields; no such row is left out except by
\* the cut.
C17_AllRowsWithImpact ==
  pc = "penaltyCandidates" => PenaltyListOf(ImpactPositions)

\* C17, amended: the penalty list holds the anomaly rows (isPotentialDiversion)
\* of the input that have a non-null freightImpact, by |freightImpact|
\* descending, cut to the limit, each projected to the nine display fields; no
\* such anomaly row is left out except by the cut.
C17_AnomalyRowsWithImpact ==
  pc = "penaltyCandidates" => PenaltyListOf(AnomalyPositions \cap ImpactPositions)

\* a non-anomaly row of impact 5 is left out, the anomaly rows of impact 0
\* and -2 are listed, the larger first
C17_Witness ==
  /\ pc = "penaltyCandidates"
  /\ limit = DefaultPenaltyLimit
  /\ Len(rows) = 3
  /\ ~rows[1].isPotentialDiversion /\ rows[1].freightImpact = Num(5)
  /\ rows[2].isPotentialDiversion /\ rows[2].freightImpact = Num(0)
  /\ rows[3].isPotentialDiversion /\ rows[3].freightImpact = Num(-2)
  /\ model.penaltyCandidates = <<Project(rows[3]), Project(rows[2])>>

\* the positions S in descending order of their key, positions of equal key
\* in ascending order
Ranked(S, key) ==
  [m \in 1..Cardinality(S) |->
     CHOOSE p \in S :
       Cardinality({q \in S : Lt(key[p], key[q]) \/ (key[q] = key[p] /\ q < p)}) = m - 1]

\* the anomaly positions where a non-empty key is seen for the first time
FirstSeen(keys) ==
  {j \in AnomalyPositions :
     /\ keys[j] # <<>>
     /\ \A h \in AnomalyPositions : h < j => keys[h] # keys[j]}

\* the keys of the groups in descending order of recovery, groups of equal
\* recovery in the order in which the input first shows them
GroupsByRecovery(keys) ==
  LET order == Ranked(FirstSeen(keys),
                      [j \in FirstSeen(keys) |-> RecoveryOf(GroupOf(keys, keys[j]))])
  IN [m \in 1..Len(order) |-> keys[order[m]]]

\* the corridor of a row: its origin and destination, "Unknown" for none
CorridorKeys ==
  [j \in 1..Len(rows) |->
     << IF rows[j].originLocation = <<>> THEN <<"Unknown">> ELSE rows[j].originLocation,
        IF rows[j].stopLocation = <<>> THEN <<"Unknown">> ELSE rows[j].stopLocation >>]

\* the corridors in descending order of count, corridors of equal count in
\* the order in which the input first shows them
CorridorsByCount ==
  LET order == Ranked(FirstSeen(CorridorKeys),
                      [j \in FirstSeen(CorridorKeys) |->
                         Num(Cardinality(GroupOf(CorridorKeys, CorridorKeys[j])))])
  IN [m \in 1..Len(order) |-> CorridorKeys[order[m]]]

\* the anomaly rows with a freight impact in descending order of
\* |freightImpact|, rows of equal magnitude in input order
CandidatesByImpact ==
  LET S == AnomalyPositions \cap ImpactPositions
      order == Ranked(S, [j \in S |-> Magnitude(rows[j].freightImpact)])
  IN [m \in 1..Len(order) |-> Project(rows[order[m]])]

\* the first n members of a sequence, all of them when it is shorter
FirstN(seq, n) == [m \in 1..Min(n, Len(seq)) |-> seq[m]]

\* C18: in both charts, the three tables and the penalty list, groups or
\* rows equal on the sort key appear in the order in which the input first
\* shows them, so the order of every output is fixed by the input order.
C18_TiesInFirstSeenOrder ==
  /\ pc = "branchChart" =>
       [j \in 1..Len(model.branchChart) |-> model.branchChart[j].name]
         = FirstN(GroupsByRecovery(BranchKeys), limit)
  /\ pc = "consigneeChart" =>
       [j \in 1..Len(model.consigneeChart) |-> model.consigneeChart[j].name]
         = FirstN(GroupsByRecovery(ConsigneeKeys), limit)
  /\ pc = "branchTable" =>
       [j \in 1..Len(model.branchTable) |-> model.branchTable[j].branchName]
         = GroupsByRecovery(BranchKeys)
  /\ pc = "consigneeTable" =>
       [j \in 1..Len(model.consigneeTable) |-> model.consigneeTable[j].consignee]
         = GroupsByRecovery(ConsigneeKeys)
  /\ pc = "corridorTable" =>
       [j \in 1..Len(model.corridorTable) |->
          <<model.corridorTable[j].origin, model.corridorTable[j].destination>>]
         = CorridorsByCount
  /\ pc = "penaltyCandidates" =>
       model.penaltyCandidates = FirstN(CandidatesByImpact, limit)

\* branches B2 and B1 tie on a recovery of 2: the chart lists B2, seen
\* first, ahead of B1
C18_Witness ==
  /\ pc = "branchChart"
  /\ Len(rows) = 2
  /\ rows[1].branchName = <<"B2">>
  /\ rows[2].branchName = <<"B1">>
  /\ model.branchChart =
       << [name |-> <<"B2">>, recovery |-> Num(2), count |-> 1],
          [name |-> <<"B1">>, recovery |-> Num(2), count |-> 1] >>

\* ---------------------------------------------- claims on the model builder
Built == pc \in {"built", "rebuilt"}

\* the parts of a model that are scoped to the anomaly rows
AnomalyScopedParts(m) ==
  <<m.scorecards, m.branchChart, m.consigneeChart, m.branchTable, m.consigneeTable,
    m.corridorTable>>

\* the filter state with the other value of the toggle
Toggled(f) == [f EXCEPT !.onlyDiversions = ~f.onlyDiversions]

\* C11: for the same rows and two filter states that differ in
\* onlyDiversions only, buildDashboardModel gives equal scorecards, charts
\* and branch, counterparty and corridor tables: the model built agrees in
\* these parts with the model of the toggled filters, and they do not change
\* when the toggle is switched either way.
C11_AnomalyScoped ==
  /\ [](Built => AnomalyScopedParts(model)
                   = AnomalyScopedParts(buildDashboardModel(rows, Toggled(filters))))
  /\ [][ (Built /\ filters' = Toggled(filters))
           => AnomalyScopedParts(model') = AnomalyScopedParts(model) ]_vars

\* the toggle is off, a non-anomaly row is among the filtered rows, and the
\* tables hold the one anomaly row only
C11_Witness ==
  /\ pc = "rebuilt"
  /\ ~filters.onlyDiversions
  /\ Len(rows) = 2
  /\ ~rows[1].isPotentialDiversion /\ rows[1].freightImpact = Num(5)
  /\ rows[2].isPotentialDiversion
  /\ model.filteredRows = rows
  /\ model.scorecards.totalPotentialRecovery = Num(2)
  /\ Len(model.branchTable) = 1
  /\ model.branchTable[1].totalRecovery = Num(2)
  /\ Len(model.corridorTable) = 1
  /\ model.corridorTable[1].count = 1

\* the sum of a sequence of integers
RECURSIVE SumInts(_)
SumInts(ns) == IF ns = <<>> THEN 0 ELSE Head(ns) + SumInts(Tail(ns))

C19_OptionsFromAllRows ==
  /\ [](Built =>
          /\ model.totalRows = Len(rows)
          /\ Range(model.filterOptions.branches)
               = {rows[j].branchName : j \in 1..Len(rows)} \ {<<>>}
          /\ Len(model.filterOptions.branches)
               = Cardinality(Range(model.filterOptions.branches))
          /\ Range(model.filterOptions.consignees)
               = {rows[j].nearestConsignee : j \in 1..Len(rows)} \ {<<>>}
          /\ Len(model.filterOptions.consignees)
               = Cardinality(Range(model.filterOptions.consignees)))
  /\ [][ Built => ( /\ model'.filterOptions = model.filterOptions
                    /\ model'.totalRows = model.totalRows ) ]_vars

\* the branch filter has removed the row of B2 and day 2; the options still
\* hold both branches and the span from day 1 to day 2
C19_Witness ==
  /\ pc = "rebuilt"
  /\ filters.branch = <<"B1">>
  /\ Len(rows) = 2
  /\ Len(model.filteredRows) = 1
  /\ model.totalRows = 2
  /\ model.filterOptions.branches = << <<"B1">>, <<"B2">> >>
  /\ model.filterOptions.dateRange.min = DateLit("ymd", 1, 0)
  /\ model.filterOptions.dateRange.max = DateLit("ymd", 2, 0)

\* -------------------------------------- further claims on normalization
\* the raw row behind the m-th record pushed so far
RawOf(m) == rawRows[AcceptedUpTo(rawRows, i)[m]]

\* C23: when normalizeRows has returned, the id of every record is its
\* customer_load_id when that is not empty and row-<index> otherwise, and no
\* two records of the batch have the same id.
C23_IdsPairwiseDistinct ==
  pc = "returned" =>
    /\ \A m \in 1..Len(results) :
         results[m].id =
           IF results[m].customerLoadId # <<>> THEN results[m].customerLoadId
           ELSE <<"row-">> \o NatToString(AcceptedUpTo(rawRows, i)[m] - 1)
    /\ \A m, n \in 1..Len(results) : m # n => results[m].id # results[n].id

\* every value that the row holds is a string, a number (NaN apart) or null
PresentValuesAllowed(rawRow) ==
  \A key \in DOMAIN rawRow :
    \/ rawRow[key].t \in {"string", "null", "undefined"}
    \/ rawRow[key].t = "number" /\ ~isNaN(rawRow[key].n)

\* C24: no row whose present values are strings, numbers or null is
\* rejected, whatever keys it lacks or has in excess; in its record a
\* missing text field is the empty string and a missing numeric field null.
C24_NormalizeRowSucceeds ==
  /\ \A j \in 1..i : PresentValuesAllowed(rawRows[j]) => RawRowSchemaAccepts(rawRows[j])
  /\ \A j \in 1..Len(warned) : ~PresentValuesAllowed(rawRows[warned[j] + 1])
  /\ \A m \in 1..Len(results) :
       /\ "journey_id" \notin DOMAIN RawOf(m) => results[m].journeyId = <<>>
       /\ "branch_name" \notin DOMAIN RawOf(m) => results[m].branchName = <<>>
       /\ "Total Freight" \notin DOMAIN RawOf(m) => results[m].totalFreight = Null
       /\ "Diff in lead" \notin DOMAIN RawOf(m) => results[m].diffInLead = Null

\* the record field that holds the coerced value of a raw numeric column
RecordFieldOf(key) ==
  CASE key = "erp_transit_distance_km" -> "erpTransitDistanceKm"
    [] key = "A to C Distance(vehicle travel)" -> "aToCDistanceKm"
    [] key = "Diff in lead" -> "diffInLead"
    [] key = "total_distance_travelled_km" -> "totalDistanceTravelledKm"
    [] key = "Total Freight" -> "totalFreight"
    [] key = "Nearest Consignee Total Freight" -> "nearestConsigneeTotalFreight"
    [] key = "Freight impact as per PTPK/Nearest consignee" -> "freightImpact"
    [] key = "loading_TAT_in_hrs" -> "loadingTatHrs"
    [] key = "actual_transit_time_in_days" -> "actualTransitTimeDays"

\* the text is a number from its first to its last lexeme: an optional
\* sign, then Infinity or digits with at most one point and a digit somewhere
IsCompleteNumber(str) ==
  LET body == IF str # <<>> /\ Head(str) \in {"-", "+"} THEN Tail(str) ELSE str
      points == {j \in 1..Len(body) : body[j] = "."}
  IN \/ body = <<"Infinity">>
     \/ /\ \A j \in 1..Len(body) : body[j] \in Digits \cup {"."}
        /\ Cardinality(points) <= 1
        /\ \E j \in 1..Len(body) : body[j] \in Digits

\* C25: the coerced value of a null or missing cell and of a text that is
\* not, once commas and surrounding blanks are removed, a complete number is
\* null; the coerced value of a text is a number only when the whole cleaned
\* text is a number.
C25_OnlyCompleteNumbers ==
  \A m \in 1..Len(results) :
    \A key \in CopiedNumericKeys :
      LET cell == Get(RawOf(m), key)
          value == results[m][RecordFieldOf(key)]
      IN /\ cell.t \in {"null", "undefined"} => value = Null
         /\ cell.t = "string" =>
              (value # Null <=> IsCompleteNumber(Trim(RemoveCommas(cell.s))))

C22_EmptyInput ==
  (Built /\ rows = <<>> /\ filters = DEFAULT_FILTERS) =>
    /\ model.totalRows = 0
    /\ model.filteredRows = <<>>
    /\ model.scorecards.totalPotentialRecovery = Num(0)
    /\ model.scorecards.avgShortLeadDistance = Num(0)
    /\ model.scorecards.maxDivertedDistance = Num(0)
    /\ model.scorecards.totalDivertedJourneys = 0
    /\ model.scorecards.totalConsigneesInvolved = 0
    /\ model.scorecards.totalBranchesWithDiversions = 0
    /\ model.branchChart = <<>>
    /\ model.consigneeChart = <<>>
    /\ model.branchTable = <<>>
    /\ model.consigneeTable = <<>>
    /\ model.corridorTable = <<>>
    /\ model.penaltyCandidates = <<>>

\* the model has been built from no rows and the default filters
C22_Witness ==
  /\ pc = "built"
  /\ rows = <<>>
  /\ filters = DEFAULT_FILTERS
  /\ model.totalRows = 0
  /\ model.scorecards = NoScorecards

\* ---------------------------------------------- claims on corridor keys
\* the ordered pair of a row's locations, empty ones read as Unknown
PairOf(r) == <<orUnknown(r.originLocation), orUnknown(r.stopLocation)>>

\* C26: the corridor table has one row for each ordered pair (origin,
\* destination) of the anomaly rows, and that row counts exactly the anomaly
\* rows with that origin and that destination: two rows are merged if and
\* only if both locations are equal, also when the pairs are swapped or a
\* location holds the three bars of the key.
C26_OneCorridorPerPair ==
  pc = "corridorTable" =>
    LET table == model.corridorTable
        pairs == {PairOf(rows[j]) : j \in AnomalyPositions}
    IN /\ Len(table) = Cardinality(pairs)
       /\ \A pair \in pairs :
            \E j \in 1..Len(table) :
              /\ table[j].origin = pair[1]
              /\ table[j].destination = pair[2]
              /\ table[j].count =
                   Cardinality({k \in AnomalyPositions : PairOf(rows[k]) = pair})

\* -------------------------------------------- claims on the Genie context
\* C27: the topPenaltyCandidates of a Genie context are the first 20 entries
\* of the model's penalty candidates in their order, each with the rounded
\* absolute freight impact as recovery and the absolute lead difference,
\* rounded to one decimal, as leadKm; the recovery is not 0 when the
\* candidate's freight impact is not 0.
C27_TopPenaltyCandidates ==
  pc = "genie" =>
    LET listed == model.penaltyCandidates
    IN /\ Len(genie) = Min(TopPenaltyCount, Len(listed))
       /\ \A j \in 1..Len(genie) :
            /\ genie[j].journeyId = listed[j].journeyId
            /\ genie[j].branch = listed[j].branchName
            /\ genie[j].consignee = listed[j].consignee
            /\ genie[j].recovery = round(MathAbs(OrZero(listed[j].freightImpact)), 0)
            /\ genie[j].leadKm = round(MathAbs(OrZero(listed[j].diffInLead)), 1)
            /\ listed[j].freightImpact # Num(0) => genie[j].recovery # Num(0)

\* ------------------------------------------------- claims on fetchData
\* the fetchData calls whose response arrives in this step
Finishing == inflight \ inflight'

\* C28: when the response of a refresh fails, allData, lastUpdated and
\* initialLoadError are what they were, one error toast is appended and
\* isRefreshing is false; initialLoadError takes a new message only when a
\* call with isRefresh = false fails.
C28_FailedRefreshKeepsData ==
  [][/\ \A f \in Finishing :
          (f.isRefresh /\ ~responses'[f.id].ok) =>
            /\ allData' = allData
            /\ lastUpdated' = lastUpdated
            /\ initialLoadError' = initialLoadError
            /\ Len(toasts') = Len(toasts) + 1
            /\ SubSeq(toasts', 1, Len(toasts)) = toasts
            /\ toasts'[Len(toasts')].type = "error"
            /\ ~isRefreshing'
     /\ (initialLoadError' # initialLoadError /\ initialLoadError' # NoError) =>
          \E f \in Finishing : ~f.isRefresh /\ ~responses'[f.id].ok]_vars

\* a refresh has failed while data of an earlier fetch is shown: the data
\* and its time are still there, no blocking error, and the toast is up
C28_Witness ==
  /\ \E id \in DOMAIN responses :
       /\ responses[id].isRefresh
       /\ ~responses[id].ok
       /\ \E j \in 1..Len(toasts) : toasts[j].id = id
  /\ allData # <<>>
  /\ lastUpdated # NoTime
  /\ initialLoadError = NoError
  /\ ~isRefreshing

\* C30: once no fetch is in flight, if the fetch that was started last got
\* its data, allData and lastUpdated are those of that fetch, whatever the
\* order in which the responses arrived.
C30_LastStartedWins ==
  (inflight = {} /\ started >= 2 /\ responses[started].ok) =>
    /\ allData = responses[started].data
    /\ lastUpdated = At(responses[started].fetchedAt)

\* ---------------------------------------------- claims on useFilterParams
\* the value of a filter field that a setFilter value stands for
FieldValue(key, value) ==
  CASE key \in {"dateFrom", "dateTo"} -> value.d
    [] key \in {"branch", "consignee"} -> value.s
    [] key = "minFreightImpact" -> value.n
    [] key = "onlyDiversions" -> value.b

\* C29: a call setFilter(key, value) leaves every field of filters other
\* than the named one as it was, and the named field then reads as the value
\* that was set.
C29_SetFilterChangesOneField ==
  [][pc' = "setFilter" =>
       /\ \A other \in FilterKeys \ {call'.key} : filters'[other] = filters[other]
       /\ filters'[call'.key] = FieldValue(call'.key, call'.value)]_vars

====
